---- MODULE Spec2Model ----
(***************************************************************************)
(* Verification model of celp-mcp's metadata and connection-lifecycle      *)
(* layer.                                                                  *)
(*                                                                         *)
(* Part I  (SpecPool): DatabricksConnectionManager of src/src/index.ts     *)
(*   (getConnection, createConnection, executeQuery, the idle sweep,       *)
(*   closeAll and the termination-signal handlers).                        *)
(* Part II (SpecMeta): initMetadata of src/src/toolRegistry.ts and the     *)
(*   loaders of the schema manager (src/unnamed/part_001).                 *)
(* Part III (SpecInfer): the document sampling inferencer of the schema    *)
(*   manager (inferFieldsFromDocuments, analyzeDocumentFields,             *)
(*   getMostCommonType).                                                   *)
(*                                                                         *)
(* JavaScript runs one callback to completion at a time; a step of the     *)
(* model is the code that runs between two awaits.                         *)
(***************************************************************************)
EXTENDS Integers, Sequences, FiniteSets, TLC

\* ------------------------------------------------------------------ bounds
MaxCalls == 2      \* getConnection / executeQuery calls issued in one run
MaxTime == 2       \* the clock runs 0..MaxTime, in units of TimeUnit ms

\* ------------------------------------------------------- program constants
IDLE_TIMEOUT == 300000      \* ms
DEFAULT_PORT == 443
TimeUnit == 300000          \* ms per clock unit of the model

\* ---------------------------------------------------------- configurations
\* DbCfg restricted to the fields the manager reads.  port 0 is `undefined`.
CfgA == [host |-> "h1", port |-> 0,   user |-> "u", database |-> "d",
         password |-> "tok1", databricksHttpPath |-> "/sql/1"]
\* CfgB has CfgA's key, another token and no httpPath; CfgC has another key.
CfgB == [host |-> "h1", port |-> 443, user |-> "u", database |-> "d",
         password |-> "tok2", databricksHttpPath |-> ""]
CfgC == [host |-> "h2", port |-> 0,   user |-> "u", database |-> "d",
         password |-> "tok1", databricksHttpPath |-> "/sql/1"]
Cfgs == {CfgA, CfgB, CfgC}

\* `${cfg.host}:${cfg.port || 443}:${cfg.user}:${cfg.database}`
getConnectionKey(cfg) ==
    <<cfg.host, IF cfg.port = 0 THEN DEFAULT_PORT ELSE cfg.port, cfg.user, cfg.database>>

Keys == {getConnectionKey(c) : c \in Cfgs}
NoKey == <<>>
CallIds == 1..MaxCalls
NoHandle == 0

VARIABLES
    connections,             \* Map key -> handle (NoHandle: no entry)
    connOrder,               \* insertion order of the Map's entries
    initializationPromises,  \* Map key -> connect attempt in flight (0: no entry)
    cleanupInterval,         \* TRUE while the setInterval timer is armed
    handles,                 \* the DatabricksConnection objects, by the attempt that made them
    attempts,                \* the createConnection promises, by the call that started them
    conn,                    \* the driver's underlying connection of each attempt
    calls,                   \* the getConnection / executeQuery calls
    sweep,                   \* the running cleanupIdleConnections invocation
    closer,                  \* the closeAll invocation of the signal handler
    now,                     \* Date.now(), in clock units
    sweepObs,                \* history: what the running sweep saw at its tick
    sessions,                \* what each executeQuery opened and has not closed
    schemaMap, indexMap, tableSizeCache,   \* Part II
    db, meta, metaHist,
    sample, analyzed, fieldMap, fields, inferPc,  \* Part III
    orch,                    \* Part IV: the orchestrate call and its socket
    emitted,                 \* the messages emitted on the socket, in order
    parked,                  \* a second initMetadata call, suspended at an await
    dbx                      \* Part V: loadDatabricksTableSizes, await by await

poolVars == <<connections, connOrder, initializationPromises, cleanupInterval, handles,
              attempts, conn, calls, sweep, closer, now, sweepObs, sessions>>
metaVars == <<schemaMap, indexMap, tableSizeCache, db, meta, metaHist>>
inferVars == <<sample, analyzed, fieldMap, fields, inferPc>>
relayVars == <<orch, emitted, parked>>
sizeVars == <<dbx>>
vars == <<poolVars, metaVars, inferVars, relayVars, sizeVars>>

\* -------------------------------------------------------------- JS Map
IndexOf(order, k) ==
    IF \E i \in 1..Len(order) : order[i] = k
    THEN CHOOSE i \in 1..Len(order) : order[i] = k
    ELSE 0
\* Map.prototype.set keeps the position of an existing key and appends a new one.
MapSetOrder(order, k) == IF IndexOf(order, k) # 0 THEN order ELSE Append(order, k)
MapDeleteOrder(order, k) == SelectSeq(order, LAMBDA x : x # k)
\* A live Map iterator that has consumed idx entries, after key k is deleted.
IterAfterDelete(idx, order, k) ==
    IF IndexOf(order, k) # 0 /\ IndexOf(order, k) <= idx THEN idx - 1 ELSE idx

\* ------------------------------------------------------------ initial state
NoHandleRec == [exists |-> FALSE, isConnected |-> FALSE, lastUsed |-> 0, config |-> CfgA]
NoAttempt == [state |-> "none", config |-> CfgA]
Settled == [state |-> "settled", config |-> CfgA]
NoCall == [kind |-> "none", config |-> CfgA, pc |-> "unused", att |-> 0,
           h |-> NoHandle, out |-> "none"]
SweepIdle == [pc |-> "idle", now |-> 0, idx |-> 0, key |-> NoKey, h |-> NoHandle]
CloserIdle == [pc |-> "idle", idx |-> 0, h |-> NoHandle]
NoObs == [idleAtTick |-> {}, freshAtTick |-> {}, judgedIdle |-> {}]

InitPoolVars ==
    /\ connections = [k \in Keys |-> NoHandle]
    /\ connOrder = <<>>
    /\ initializationPromises = [k \in Keys |-> 0]
    /\ cleanupInterval = TRUE
    /\ handles = [h \in CallIds |-> NoHandleRec]
    /\ attempts = [a \in CallIds |-> NoAttempt]
    /\ conn = [a \in CallIds |-> "none"]
    /\ calls = [c \in CallIds |-> NoCall]
    /\ sweep = SweepIdle
    /\ closer = CloserIdle
    /\ now = 0
    /\ sweepObs = NoObs
    /\ sessions = [c \in CallIds |-> {}]

\* The process has not exited: closeAll is only called by the SIGINT / SIGTERM
\* handlers, which call process.exit(0) as soon as it completes.
Running == closer.pc # "done"

\* ------------------------------------------------------------------ helpers
Min(S) == CHOOSE x \in S : \A y \in S : x <= y

\* Variant: the isConnected flag is not looked at.
HasLiveHandle_AnyEntry(k) == connections[k] # NoHandle

\* index.ts:551-552  `existing && existing.isConnected`
HasLiveHandle(k) == connections[k] # NoHandle /\ handles[connections[k]].isConnected

\* Variant: an attempt in flight is not joined.
JoinsInFlight_Never(k) == FALSE

\* index.ts:558-559  `if (initPromise)`
JoinsInFlight(k) == initializationPromises[k] # 0

\* Variant: the timestamp is not refreshed.
Touch_Not(hs, h, t) == hs

\* index.ts:553  `existing.lastUsed = Date.now()`
Touch(hs, h, t) == [hs EXCEPT ![h].lastUsed = t]

\* index.ts:604-610  the handle createConnection builds once connect() resolved
NewHandle(cfg, t) == [exists |-> TRUE, isConnected |-> TRUE, lastUsed |-> t, config |-> cfg]

\* Variant: a failed query leaves the flag alone.
MarkBad_Not(hs, h) == hs

\* index.ts:642  `databricksConnection.isConnected = false`
MarkBad(hs, h) == [hs EXCEPT ![h].isConnected = FALSE]

\* Variant: the in-flight entry is kept.
DeleteInit_Not(ip, k) == ip

\* index.ts:572  `this.initializationPromises.delete(key)`
DeleteInit(ip, k) == [ip EXCEPT ![k] = 0]

\* Variant: >= instead of >.
IsIdle_AtLeast(h, snow) == (snow - handles[h].lastUsed) * TimeUnit >= IDLE_TIMEOUT

\* index.ts:651  `now - connection.lastUsed > this.IDLE_TIMEOUT`
IsIdle(h, snow) == (snow - handles[h].lastUsed) * TimeUnit > IDLE_TIMEOUT

\* connection.close() of the driver: an open connection starts closing; the
\* await ends when it is closed.  An error thrown by close() is caught and only
\* logged (index.ts:655-657, 671-673).
StartClose(cn, h) == [cn EXCEPT ![h] = IF @ = "open" THEN "closing" ELSE @]
EndClose(cn, h) == [cn EXCEPT ![h] = IF @ \in {"open", "closing"} THEN "closed" ELSE @]

\* A call that has returned: its outcome and the handle it got.
Returned(call, h, out) == [call EXCEPT !.pc = "done", !.h = h, !.out = out]

\* The continuations of the calls awaiting attempt a (index.ts:560, 568-570;
\* for executeQuery also 623-626): a handle for getConnection, the start of the
\* query for executeQuery, or the attempt's error for both.
SettleCalls(a, ok) ==
    [c \in CallIds |->
        IF calls[c].pc = "wait" /\ calls[c].att = a
        THEN IF ok
             THEN IF calls[c].kind = "get"
                  THEN Returned(calls[c], a, "handle")
                  ELSE [calls[c] EXCEPT !.pc = "query", !.h = a]
             ELSE Returned(calls[c], calls[c].h, "error")
        ELSE calls[c]]

\* ------------------------------------------------- getConnection (543-574)
\* The synchronous part of getConnection, up to its return or first await.
\* The databaseType guard of 544-546 never fires: every caller passes a
\* databricks configuration (index.ts:689, 759-761, 834-836).
BeginCall(c, kind, cfg) ==
    LET k == getConnectionKey(cfg)
        h == connections[k]
        base == [kind |-> kind, config |-> cfg, pc |-> "wait", att |-> 0,
                 h |-> NoHandle, out |-> "none"]
    IN
    /\ Running
    /\ calls[c].pc = "unused"
    /\ \A d \in 1..(c - 1) : calls[d].pc # "unused"
    /\ IF HasLiveHandle(k)
       THEN /\ handles' = Touch(handles, h, now)
            /\ calls' = [calls EXCEPT ![c] =
                   IF kind = "get"
                   THEN Returned(base, h, "handle")
                   ELSE [base EXCEPT !.pc = "query", !.h = h]]
            /\ UNCHANGED <<attempts, conn, initializationPromises>>
       ELSE IF JoinsInFlight(k)
       THEN /\ calls' = [calls EXCEPT ![c] = [base EXCEPT !.att = initializationPromises[k]]]
            /\ UNCHANGED <<handles, attempts, conn, initializationPromises>>
       ELSE \* createConnection(cfg, key) runs up to `await import(...)`
            /\ attempts' = [attempts EXCEPT ![c] = [state |-> "pending", config |-> cfg]]
            /\ conn' = [conn EXCEPT ![c] =
                   IF cfg.databricksHttpPath = "" THEN "none" ELSE "connecting"]
            /\ initializationPromises' = [initializationPromises EXCEPT ![k] = c]
            /\ calls' = [calls EXCEPT ![c] = [base EXCEPT !.att = c]]
            /\ UNCHANGED handles
    /\ UNCHANGED <<connections, connOrder, cleanupInterval, sweep, closer, now, sweepObs>>
    /\ UNCHANGED <<sessions, metaVars, inferVars, relayVars, sizeVars>>

GetConnection(c, cfg) == BeginCall(c, "get", cfg)

\* executeQuery (622-645) starts with `await this.getConnection(cfg)`.
ExecuteQuery(c, cfg) == BeginCall(c, "exec", cfg)

\* ---------------------------------------------- createConnection (576-620)
\* client.connect() resolved before the timeout: the handle is built, the
\* owner stores it and drops the in-flight entry, every waiter gets it.
ConnectSucceeds(a) ==
    LET cfg == attempts[a].config
        k == getConnectionKey(cfg)
    IN
    /\ Running
    /\ attempts[a].state = "pending"
    /\ conn[a] = "connecting"
    /\ conn' = [conn EXCEPT ![a] = "open"]
    /\ handles' = [handles EXCEPT ![a] = NewHandle(cfg, now)]
    /\ attempts' = [attempts EXCEPT ![a] = Settled]
    /\ connections' = [connections EXCEPT ![k] = a]
    /\ connOrder' = MapSetOrder(connOrder, k)
    /\ initializationPromises' = DeleteInit(initializationPromises, k)
    /\ calls' = SettleCalls(a, TRUE)
    /\ UNCHANGED <<cleanupInterval, sweep, closer, now, sweepObs>>
    /\ UNCHANGED <<sessions, metaVars, inferVars, relayVars, sizeVars>>

\* The attempt throws: the driver is not installed, httpPath is missing, or
\* connect() rejected.  Nothing is stored; the in-flight entry is dropped.
ConnectFails(a) ==
    LET k == getConnectionKey(attempts[a].config)
    IN
    /\ Running
    /\ attempts[a].state = "pending"
    /\ conn' = [conn EXCEPT ![a] = "failed"]
    /\ attempts' = [attempts EXCEPT ![a] = Settled]
    /\ initializationPromises' = DeleteInit(initializationPromises, k)
    /\ calls' = SettleCalls(a, FALSE)
    /\ UNCHANGED <<connections, connOrder, handles, cleanupInterval, sweep, closer, now,
                   sweepObs>>
    /\ UNCHANGED <<sessions, metaVars, inferVars, relayVars, sizeVars>>

\* Variant: the race has no timer.
ConnectTimeout_Never(a) == a \notin CallIds /\ UNCHANGED vars

\* The 30 s timer of the Promise.race fires first (597-599).  The race rejects,
\* but client.connect() itself is not cancelled.
ConnectTimeout(a) ==
    LET k == getConnectionKey(attempts[a].config)
    IN
    /\ Running
    /\ attempts[a].state = "pending"
    /\ conn[a] = "connecting"
    /\ attempts' = [attempts EXCEPT ![a] = Settled]
    /\ initializationPromises' = DeleteInit(initializationPromises, k)
    /\ calls' = SettleCalls(a, FALSE)
    /\ UNCHANGED <<connections, connOrder, handles, conn, cleanupInterval, sweep, closer,
                   now, sweepObs>>
    /\ UNCHANGED <<sessions, metaVars, inferVars, relayVars, sizeVars>>

\* client.connect() of an attempt that already timed out settles afterwards;
\* nobody holds its result.
ConnectSettlesLate(a, ok) ==
    /\ Running
    /\ attempts[a].state = "settled"
    /\ conn[a] = "connecting"
    /\ conn' = [conn EXCEPT ![a] = IF ok THEN "open" ELSE "failed"]
    /\ UNCHANGED <<connections, connOrder, initializationPromises, cleanupInterval, handles,
                   attempts, calls, sweep, closer, now, sweepObs>>
    /\ UNCHANGED <<sessions, metaVars, inferVars, relayVars, sizeVars>>

\* ------------------------------------------------- executeQuery (625-644)
\* The awaits of the try block, in order.
QueryStages == <<"openSession", "executeStatement", "fetchAll", "operationClose",
                 "sessionClose">>

\* Variant: a finally block closes what was opened.
LeftOpen_Closed(stage) == {}

\* What a throw at a stage leaves open: the catch (639-644) closes nothing.
\* A close() that threw has not closed.
LeftOpen(stage) ==
    CASE stage = "openSession" -> {}
      [] stage = "executeStatement" -> {"session"}
      [] stage = "fetchAll" -> {"session", "operation"}
      [] stage = "operationClose" -> {"session", "operation"}
      [] stage = "sessionClose" -> {"session"}

\* openSession, executeStatement, fetchAll, operation.close and session.close
\* touch no state of the manager until the last one has returned, so the five
\* awaits are one step.
QuerySucceeds(c) ==
    /\ Running
    /\ calls[c].pc = "query"
    /\ conn[calls[c].h] = "open"
    /\ handles' = Touch(handles, calls[c].h, now)
    /\ calls' = [calls EXCEPT ![c] = Returned(calls[c], calls[c].h, "rows")]
    /\ sessions' = [sessions EXCEPT ![c] = {}]
    /\ UNCHANGED <<connections, connOrder, initializationPromises, cleanupInterval, attempts,
                   conn, sweep, closer, now, sweepObs>>
    /\ UNCHANGED <<metaVars, inferVars, relayVars, sizeVars>>

\* One of the five awaits throws (a closed connection, a bad statement, ...).
\* On a connection that is not open it is the first one.
QueryFails(c) ==
    /\ Running
    /\ calls[c].pc = "query"
    /\ handles' = MarkBad(handles, calls[c].h)
    /\ calls' = [calls EXCEPT ![c] = Returned(calls[c], calls[c].h, "error")]
    /\ \E i \in 1..Len(QueryStages) :
         /\ conn[calls[c].h] # "open" => i = 1
         /\ sessions' = [sessions EXCEPT ![c] = LeftOpen(QueryStages[i])]
    /\ UNCHANGED <<connections, connOrder, initializationPromises, cleanupInterval, attempts,
                   conn, sweep, closer, now, sweepObs>>
    /\ UNCHANGED <<metaVars, inferVars, relayVars, sizeVars>>

\* --------------------------------------- cleanupIdleConnections (647-661)
\* The position (> idx) of the next entry the for-of loop finds idle; 0: none.
NextIdleFrom(order, cs, idx, snow) ==
    LET S == {i \in (idx + 1)..Len(order) : IsIdle(cs[order[i]], snow)}
    IN IF S = {} THEN 0 ELSE Min(S)

\* The handles the pool holds.
Pooled == {connections[k] : k \in Keys} \ {NoHandle}

\* History only: lastUsed lies more than 5 minutes before time t.
PastThreshold(h, t) == (t - handles[h].lastUsed) * TimeUnit > 300000

\* The setInterval callback (534-536) starts a sweep: `now` is read once, the
\* loop runs to its first idle entry and awaits that connection's close().
\* One sweep runs at a time in the model.  A sweep that finds nothing idle
\* ends at once and changes nothing.
SweepTick ==
    LET p == NextIdleFrom(connOrder, connections, 0, now)
    IN
    /\ Running
    /\ cleanupInterval
    /\ sweep.pc = "idle"
    /\ IF p = 0
       THEN /\ sweep' = SweepIdle
            /\ conn' = conn
            /\ sweepObs' = NoObs
       ELSE /\ sweep' = [pc |-> "closing", now |-> now, idx |-> p, key |-> connOrder[p],
                         h |-> connections[connOrder[p]]]
            /\ conn' = StartClose(conn, connections[connOrder[p]])
            /\ sweepObs' = [idleAtTick |-> {h \in Pooled : PastThreshold(h, now)},
                            freshAtTick |-> {h \in Pooled : ~PastThreshold(h, now)},
                            judgedIdle |-> {connections[connOrder[p]]}]
    /\ UNCHANGED <<connections, connOrder, initializationPromises, cleanupInterval, handles,
                   attempts, calls, closer, now>>
    /\ UNCHANGED <<sessions, metaVars, inferVars, relayVars, sizeVars>>

\* The awaited close() returns: `this.connections.delete(key)`, then the loop
\* goes on to the next idle entry or ends.
SweepStep ==
    LET k == sweep.key
        cs == [connections EXCEPT ![k] = NoHandle]
        ord == MapDeleteOrder(connOrder, k)
        idx == IterAfterDelete(sweep.idx, connOrder, k)
        p == NextIdleFrom(ord, cs, idx, sweep.now)
        cn == EndClose(conn, sweep.h)
    IN
    /\ Running
    /\ sweep.pc = "closing"
    /\ connections' = cs
    /\ connOrder' = ord
    /\ closer' = IF closer.pc = "closing"
                 THEN [closer EXCEPT !.idx = IterAfterDelete(closer.idx, connOrder, k)]
                 ELSE closer
    /\ IF p = 0
       THEN /\ sweep' = SweepIdle
            /\ conn' = cn
            /\ sweepObs' = NoObs
       ELSE /\ sweep' = [pc |-> "closing", now |-> sweep.now, idx |-> p, key |-> ord[p],
                         h |-> cs[ord[p]]]
            /\ conn' = StartClose(cn, cs[ord[p]])
            /\ sweepObs' = [sweepObs EXCEPT !.judgedIdle = @ \cup {cs[ord[p]]}]
    /\ UNCHANGED <<initializationPromises, cleanupInterval, handles, attempts, calls, now>>
    /\ UNCHANGED <<sessions, metaVars, inferVars, relayVars, sizeVars>>

\* ------------------------------------------------------ closeAll (663-678)
\* this.connections.clear(); this.initializationPromises.clear()
ClearedConnections == [k \in Keys |-> NoHandle]
ClearedInit == [k \in Keys |-> 0]

\* SIGINT / SIGTERM (709-719): closeAll clears the timer and awaits the
\* close() of the first entry; with an empty pool it clears both maps at once
\* and the handler exits the process.
CloseAllStart ==
    /\ Running
    /\ closer.pc = "idle"
    /\ cleanupInterval' = FALSE
    /\ IF Len(connOrder) = 0
       THEN /\ closer' = [CloserIdle EXCEPT !.pc = "done"]
            /\ connections' = ClearedConnections
            /\ connOrder' = <<>>
            /\ initializationPromises' = ClearedInit
            /\ conn' = conn
       ELSE /\ closer' = [pc |-> "closing", idx |-> 1, h |-> connections[connOrder[1]]]
            /\ conn' = StartClose(conn, connections[connOrder[1]])
            /\ UNCHANGED <<connections, connOrder, initializationPromises>>
    /\ UNCHANGED <<handles, attempts, calls, sweep, now, sweepObs>>
    /\ UNCHANGED <<sessions, metaVars, inferVars, relayVars, sizeVars>>

\* The awaited close() returns: the loop goes on to the next entry of the live
\* iterator, or ends, the maps are cleared and the process exits.
CloseAllStep ==
    LET cn == EndClose(conn, closer.h)
    IN
    /\ closer.pc = "closing"
    /\ IF closer.idx < Len(connOrder)
       THEN /\ closer' = [pc |-> "closing", idx |-> closer.idx + 1,
                          h |-> connections[connOrder[closer.idx + 1]]]
            /\ conn' = StartClose(cn, connections[connOrder[closer.idx + 1]])
            /\ UNCHANGED <<connections, connOrder, initializationPromises>>
       ELSE /\ closer' = [CloserIdle EXCEPT !.pc = "done"]
            /\ conn' = cn
            /\ connections' = ClearedConnections
            /\ connOrder' = <<>>
            /\ initializationPromises' = ClearedInit
    /\ UNCHANGED <<cleanupInterval, handles, attempts, calls, sweep, now, sweepObs>>
    /\ UNCHANGED <<sessions, metaVars, inferVars, relayVars, sizeVars>>

\* ----------------------------------------------------------------- clock
AdvanceClock ==
    /\ Running
    /\ now < MaxTime
    /\ now' = now + 1
    /\ UNCHANGED <<connections, connOrder, initializationPromises, cleanupInterval, handles,
                   attempts, conn, calls, sweep, closer, sweepObs>>
    /\ UNCHANGED <<sessions, metaVars, inferVars, relayVars, sizeVars>>

\* ---------------------------------------------------------- Part I: spec
InitMetaIdle ==
    /\ schemaMap = <<>>
    /\ indexMap = <<>>
    /\ tableSizeCache = <<>>
    /\ db = <<>>
    /\ meta = <<>>
    /\ metaHist = <<>>

InitInferIdle ==
    /\ sample = <<>>
    /\ analyzed = 0
    /\ fieldMap = <<>>
    /\ fields = <<>>
    /\ inferPc = "idle"

\* No orchestrate call was made and no second initMetadata call is suspended.
NoCfg == [databaseType |-> "none", host |-> "", user |-> "", password |-> ""]
OrchIdle == [pc |-> "idle", prompt |-> "", apiKey |-> "", connId |-> "", cfg |-> NoCfg,
             mode |-> "", requests |-> 0, final |-> ""]
NotParked == [pc |-> "idle", kind |-> "none", disc |-> "none", client |-> "none",
              out |-> "none", failed |-> "none", parts |-> {}, tier |-> "none"]
\* loadDatabricksTableSizes was not called.
DbxIdle == [pc |-> "idle", n |-> 0, from |-> 0, status |-> <<>>, calls |-> <<>>,
            local |-> <<>>, fallback |-> FALSE, listed |-> FALSE]
InitRelayIdle ==
    /\ orch = OrchIdle
    /\ emitted = <<>>
    /\ parked = NotParked
    /\ dbx = DbxIdle

InitPool == InitPoolVars /\ InitMetaIdle /\ InitInferIdle /\ InitRelayIdle

NextPool ==
    \/ \E c \in CallIds, cfg \in Cfgs : GetConnection(c, cfg)
    \/ \E c \in CallIds, cfg \in Cfgs : ExecuteQuery(c, cfg)
    \/ \E a \in CallIds : ConnectSucceeds(a)
    \/ \E a \in CallIds : ConnectFails(a)
    \/ \E a \in CallIds : ConnectTimeout(a)
    \/ \E a \in CallIds, ok \in BOOLEAN : ConnectSettlesLate(a, ok)
    \/ \E c \in CallIds : QuerySucceeds(c)
    \/ \E c \in CallIds : QueryFails(c)
    \/ SweepTick
    \/ SweepStep
    \/ CloseAllStart
    \/ CloseAllStep
    \/ AdvanceClock

SpecPool == InitPool /\ [][NextPool]_vars

\* createConnection throws on its own, before connect() is called: the
\* httpPath is missing (index.ts:584-587).
ThrowsBeforeConnect(a) == conn[a] = "none" /\ ConnectFails(a)

\* The event loop runs every callback that is ready: the 30 s timer of a
\* pending race fires unless the race settled before, and the throw of
\* createConnection is not held back.  Nothing is assumed of the backend.
SpecPoolLive ==
    /\ InitPool
    /\ [][NextPool]_vars
    /\ \A a \in CallIds : WF_vars(ConnectTimeout(a)) /\ WF_vars(ThrowsBeforeConnect(a))

\* ================================================================ claims
KeyOfHandle(h) == getConnectionKey(handles[h].config)
Stale(h) == h # NoHandle /\ handles[h].exists /\ ~handles[h].isConnected
\* Call c enters getConnection in this step.
Enters(c) == calls[c].pc = "unused" /\ calls'[c].pc # "unused"
\* The idle sweep ends in this step.
SweepEnds == sweep.pc = "closing" /\ sweep'.pc = "idle"

\* C1: getConnection calls with the same key that overlap while no live handle
\* exists share one connect attempt (at most one attempt is pending per key,
\* all waiting calls of a key await it), and calls that awaited the same
\* attempt got the same handle, the one that attempt created.
C1_PoolDedup ==
    /\ \A k \in Keys :
          Cardinality({a \in CallIds : attempts[a].state = "pending"
                                        /\ getConnectionKey(attempts[a].config) = k}) <= 1
    /\ \A c1 \in CallIds, c2 \in CallIds :
          /\ (calls[c1].pc = "wait" /\ calls[c2].pc = "wait"
                /\ getConnectionKey(calls[c1].config) = getConnectionKey(calls[c2].config))
             => (calls[c1].att = calls[c2].att /\ attempts[calls[c1].att].state = "pending")
          /\ (calls[c1].att # 0 /\ calls[c1].att = calls[c2].att
                /\ calls[c1].h # NoHandle /\ calls[c2].h # NoHandle)
             => (calls[c1].h = calls[c2].h /\ calls[c1].h = calls[c1].att)

\* Two getConnection calls awaited one attempt and both returned its handle.
C1_Witness ==
    \E c1 \in CallIds, c2 \in CallIds :
        /\ c1 # c2
        /\ calls[c1].kind = "get" /\ calls[c2].kind = "get"
        /\ calls[c1].out = "handle" /\ calls[c2].out = "handle"
        /\ calls[c1].att = c1 /\ calls[c2].att = c1
        /\ calls[c1].h = calls[c2].h

\* C2: once closeAll has completed, the idle sweep's timer is stopped, the
\* pool is empty and no connection the manager opened is still open.
C2_CloseAllLeavesNothingOpen ==
    closer.pc = "done" =>
        /\ ~cleanupInterval
        /\ connOrder = <<>>
        /\ \A k \in Keys : connections[k] = NoHandle
        /\ \A a \in CallIds : conn[a] # "open"

\* C3: a query that fails after its handle was obtained raises the error and
\* leaves the handle with isConnected = false; a getConnection that then finds
\* the stale handle under its key awaits a pending connect attempt (a new one
\* unless one is already in flight), and the handle it finally gets is the
\* one that attempt creates, not the stale one.
C3_FailedQueryForcesReconnect ==
    [][ \A c \in CallIds :
          /\ (calls[c].pc = "query" /\ calls'[c].pc = "done" /\ calls'[c].out # "rows")
             => (calls'[c].out = "error" /\ ~handles'[calls[c].h].isConnected)
          /\ (Enters(c) /\ Stale(connections[getConnectionKey(calls'[c].config)]))
             => LET k == getConnectionKey(calls'[c].config)
                IN /\ calls'[c].pc = "wait"
                   /\ calls'[c].h = NoHandle
                   /\ attempts'[calls'[c].att].state = "pending"
                   /\ initializationPromises'[k] = calls'[c].att
                   /\ initializationPromises[k] = 0 => calls'[c].att = c
          /\ (calls[c].pc = "wait" /\ calls'[c].h # NoHandle)
             => (calls'[c].h = calls[c].att /\ ~handles[calls'[c].h].exists
                 /\ handles'[calls'[c].h].isConnected)
      ]_vars

\* A query failed on a handle, and a later call of the same key got another,
\* connected handle from a later attempt.
C3_Witness ==
    \E c1 \in CallIds, c2 \in CallIds :
        /\ calls[c1].kind = "exec" /\ calls[c1].out = "error" /\ calls[c1].h # NoHandle
        /\ ~handles[calls[c1].h].isConnected
        /\ calls[c2].h # NoHandle /\ calls[c2].h # calls[c1].h
        /\ calls[c2].att = calls[c2].h /\ calls[c2].att > calls[c1].h
        /\ KeyOfHandle(calls[c2].h) = KeyOfHandle(calls[c1].h)

\* C4: when a connect attempt fails, every call awaiting it ends with the
\* error, the pool is left as it was, and the key's in-flight entry is gone
\* with no live handle under the key, so the next getConnection of the key
\* starts a new attempt.
C4_FailedConnectCachesNothing ==
    [][ \A a \in CallIds :
          (attempts[a].state = "pending" /\ attempts'[a].state = "settled"
                /\ ~handles'[a].exists)
          => LET k == getConnectionKey(attempts[a].config)
             IN /\ \A c \in CallIds :
                      (calls[c].pc = "wait" /\ calls[c].att = a)
                      => (calls'[c].pc = "done" /\ calls'[c].out = "error"
                          /\ calls'[c].h = NoHandle)
                /\ connections' = connections
                /\ connOrder' = connOrder
                /\ handles' = handles
                /\ initializationPromises'[k] = 0
                /\ connections'[k] # NoHandle => ~handles'[connections'[k]].isConnected
      ]_vars

\* Two calls awaited an attempt that failed; both ended with the error and the
\* key has neither a handle nor an in-flight entry.
C4_Witness ==
    \E c1 \in CallIds, c2 \in CallIds :
        /\ c1 # c2
        /\ calls[c1].att = c1 /\ calls[c2].att = c1
        /\ calls[c1].out = "error" /\ calls[c2].out = "error"
        /\ calls[c1].kind = "get" /\ calls[c2].kind = "get"
        /\ attempts[c1].state = "settled" /\ ~handles[c1].exists
        /\ connections[getConnectionKey(calls[c1].config)] = NoHandle
        /\ initializationPromises[getConnectionKey(calls[c1].config)] = 0

C6_FastPathFrame ==
    [][ \A c \in CallIds :
          (Enters(c) /\ HasLiveHandle(getConnectionKey(calls'[c].config)))
          => LET h == connections[getConnectionKey(calls'[c].config)]
             IN /\ calls'[c].h = h
                /\ calls'[c].att = 0
                /\ calls'[c].kind = "get" => (calls'[c].pc = "done" /\ calls'[c].out = "handle")
                /\ handles' = [handles EXCEPT ![h].lastUsed = now]
                /\ attempts' = attempts
                /\ conn' = conn
                /\ connections' = connections
                /\ connOrder' = connOrder
                /\ initializationPromises' = initializationPromises
      ]_vars

\* A getConnection returned a pooled handle without awaiting any attempt, at a
\* later time than the handle was created, and the handle carries that time.
C6_Witness ==
    \E c \in CallIds :
        /\ calls[c].kind = "get" /\ calls[c].out = "handle" /\ calls[c].att = 0
        /\ connections[getConnectionKey(calls[c].config)] = calls[c].h
        /\ now > 0 /\ handles[calls[c].h].lastUsed = now

\* C7: isConnected never goes from false to true; a call never gets a handle
\* that was stale when it got it; and a stale pooled handle is replaced under
\* its key only by a handle created in that very step.
C7_StaleNeverRepaired ==
    [][ /\ \A h \in CallIds : Stale(h) => ~handles'[h].isConnected
        /\ \A c \in CallIds :
              (calls[c].h = NoHandle /\ calls'[c].h # NoHandle)
              => (~Stale(calls'[c].h) /\ handles'[calls'[c].h].isConnected)
        /\ \A k \in Keys :
              (Stale(connections[k]) /\ connections'[k] # connections[k]
                    /\ connections'[k] # NoHandle)
              => (~handles[connections'[k]].exists /\ handles'[connections'[k]].isConnected
                  /\ getConnectionKey(handles'[connections'[k]].config) = k)
      ]_vars

\* A stale handle has been replaced in the pool by a newer, connected handle
\* of the same key.
C7_Witness ==
    \E h1 \in CallIds, h2 \in CallIds :
        /\ Stale(h1) /\ h1 \notin Pooled
        /\ h2 # h1 /\ connections[KeyOfHandle(h1)] = h2
        /\ handles[h2].exists /\ handles[h2].isConnected

\* ======================================================================
\* Part II: the metadata store and initMetadata
\* ======================================================================
SampleSize == 100      \* `const sampleSize = 100` of loadMongoSchemaMap

Kinds == {"mysql", "postgres", "mongodb", "databricks"}

\* ------------------------------------------------------- the databases
\* What each backend's catalog can hold.  db[kind] is the set of entities
\* (tables, collections) the configured database of that kind holds now, each
\* a tuple of name parts.  mysql: <<table>> of cfg.database.  postgres:
\* <<schema, table>>.  mongodb: <<collection>>.  databricks: <<catalog, schema,
\* table>>, MANAGED.  A key of the three maps is such a tuple: <<"public",
\* "orders">> stands for the string "public.orders".
Universe(kind) ==
    CASE kind = "mysql" -> {<<"orders">>, <<"users">>}
      [] kind = "postgres" -> {<<"public", "orders">>, <<"sales", "orders">>}
      [] kind = "mongodb" -> {<<"carts">>, <<"events">>}
      [] kind = "databricks" -> {<<"main", "default", "orders">>, <<"main", "sales", "orders">>}

\* information_schema.COLUMNS of the mysql database, ORDER BY TABLE_NAME,
\* ORDINAL_POSITION; information_schema.STATISTICS, ORDER BY TABLE_NAME,
\* INDEX_NAME, SEQ_IN_INDEX; information_schema.TABLES.
MysqlColumns ==
    << [TABLE_NAME |-> "orders", COLUMN_NAME |-> "id"],
       [TABLE_NAME |-> "orders", COLUMN_NAME |-> "total"],
       [TABLE_NAME |-> "users", COLUMN_NAME |-> "id"] >>
MysqlStatistics ==
    << [TABLE_NAME |-> "orders", INDEX_NAME |-> "PRIMARY", COLUMN_NAME |-> "id"],
       [TABLE_NAME |-> "users", INDEX_NAME |-> "PRIMARY", COLUMN_NAME |-> "id"],
       [TABLE_NAME |-> "users", INDEX_NAME |-> "by_name", COLUMN_NAME |-> "name"] >>
MysqlTables ==
    << [TABLE_NAME |-> "orders", TABLE_ROWS |-> 5],
       [TABLE_NAME |-> "users", TABLE_ROWS |-> 3] >>

\* postgres: information_schema.schemata ORDER BY schema_name; the column join
\* ORDER BY table_name, ordinal_position; pg_indexes ORDER BY schemaname,
\* tablename, indexname (indexdef given by its parenthesised column list);
\* pg_stat_user_tables.
PgSchemata == <<"public", "sales">>
PgColumns ==
    << [table_schema |-> "public", table_name |-> "orders", column_name |-> "id"],
       [table_schema |-> "public", table_name |-> "orders", column_name |-> "total"],
       [table_schema |-> "sales", table_name |-> "orders", column_name |-> "id"] >>
PgIndexes ==
    << [schemaname |-> "public", tablename |-> "orders", indexname |-> "orders_pkey",
        columns |-> <<"id">>],
       [schemaname |-> "public", tablename |-> "orders", indexname |-> "orders_total",
        columns |-> <<"total", "id">>],
       [schemaname |-> "sales", tablename |-> "orders", indexname |-> "orders_pkey",
        columns |-> <<"id">>] >>
PgStatUserTables ==
    << [schemaname |-> "public", relname |-> "orders", n_live_tup |-> 5],
       [schemaname |-> "sales", relname |-> "orders", n_live_tup |-> 3] >>

\* mongodb: listCollections, and the documents of each collection by shape
\* (the set of top-level fields): nMain documents of shape main, nRare of
\* shape rare.
MongoCollections == <<"carts", "events">>
MongoDocs(c) ==
    IF c = "carts"
    THEN [main |-> {"_id", "total"}, nMain |-> 100, rare |-> {"_id", "total", "note"},
          nRare |-> 1]
    ELSE [main |-> {"_id"}, nMain |-> 2, rare |-> {"_id", "kind"}, nRare |-> 1]
\* localeCompare order of the field paths
FieldOrder == <<"_id", "kind", "note", "total">>

\* databricks: <catalog>.information_schema.columns ORDER BY table_schema,
\* table_name, ordinal_position; system.information_schema.tables; numRows of
\* DESCRIBE DETAIL.
DbxColumns ==
    << [table_catalog |-> "main", table_schema |-> "default", table_name |-> "orders",
        column_name |-> "id"],
       [table_catalog |-> "main", table_schema |-> "default", table_name |-> "orders",
        column_name |-> "total"],
       [table_catalog |-> "main", table_schema |-> "sales", table_name |-> "orders",
        column_name |-> "id"] >>
DbxTables ==
    << [table_catalog |-> "main", table_schema |-> "default", table_name |-> "orders",
        numRows |-> 5],
       [table_catalog |-> "main", table_schema |-> "sales", table_name |-> "orders",
        numRows |-> 3] >>

\* ------------------------------------------------------------ JS objects
EmptyMap == <<>>
Has(m, k) == k \in DOMAIN m
Put(m, k, v) == (k :> v) @@ m
\* `if (!m[k]) m[k] = []; m[k].push(v)`
Push(m, k, v) == IF Has(m, k) THEN Put(m, k, Append(m[k], v)) ELSE Put(m, k, <<v>>)

\* for (const e of entries) { if (!m[e.key]) m[e.key] = []; m[e.key].push(e.val) }
RECURSIVE PushAll(_, _)
PushAll(m, entries) ==
    IF entries = <<>> THEN m
    ELSE PushAll(Push(m, Head(entries).key, Head(entries).val), Tail(entries))

\* for (const e of entries) m[e.key] = e.val
RECURSIVE PutAll(_, _)
PutAll(m, entries) ==
    IF entries = <<>> THEN m
    ELSE PutAll(Put(m, Head(entries).key, Head(entries).val), Tail(entries))

\* The values a driver hands over in a row-count cell, and what the loaders
\* make of them: a number, null, undefined, NaN, a string of decimal digits
\* (digits, the number they spell in n) and a string that starts with no digit
\* (text).
JsNumber(k) == [t |-> "number", n |-> k]
JsDigits(k) == [t |-> "digits", n |-> k]
JsNull == [t |-> "null", n |-> 0]
JsUndefined == [t |-> "undefined", n |-> 0]
JsNaN == [t |-> "NaN", n |-> 0]
JsText == [t |-> "text", n |-> 0]

\* parseInt(v, 10): the integer a number or a digit string spells, NaN for
\* everything else
parseInt(v) == IF v.t \in {"number", "digits"} THEN JsNumber(v.n) ELSE JsNaN

\* v || 0
OrZero(v) ==
    IF v.t \in {"null", "undefined", "NaN"} \/ (v.t = "number" /\ v.n = 0)
    THEN JsNumber(0) ELSE v

\* The cell of a table's row: raw[key] when the catalog is said to return
\* something else than the count it holds
CellOf(raw, key, held) == IF Has(raw, key) THEN raw[key] ELSE held

\* The key a loader files a catalog row under.
MysqlKey(r) == <<r.TABLE_NAME>>
\* Variant: the table name alone is the key.
QualifiedTableName_Bare(schemaName, tableName) == <<tableName>>

\* `${schemaName}.${tableName}` (667, 892), schemaname || '.' || relname (829).
\* A name is a sequence of dot-free parts, so joining with a dot concatenates.
QualifiedTableName(schemaName, tableName) == <<schemaName>> \o <<tableName>>
PgKey(r) == QualifiedTableName(r.schemaname, r.tablename)
DbxKey(r) == <<r.table_catalog, r.table_schema, r.table_name>>

\* --------------------------------------------- loadMysqlSchemaMap (511-610)
\* Variant: the rows are pushed onto the map of the previous load.
MysqlSchemaFrom_Accumulate(prev, d) ==
    LET rows == SelectSeq(MysqlColumns, LAMBDA r : MysqlKey(r) \in d)
    IN PushAll(prev, [i \in 1..Len(rows) |->
                        [key |-> MysqlKey(rows[i]),
                         val |-> [columnName |-> rows[i].COLUMN_NAME]]])

\* 533-565: localSchemaMap = {}; one push per column row; schemaMap = local
MysqlSchemaFrom(prev, d) ==
    LET rows == SelectSeq(MysqlColumns, LAMBDA r : MysqlKey(r) \in d)
    IN PushAll(EmptyMap, [i \in 1..Len(rows) |->
                            [key |-> MysqlKey(rows[i]),
                             val |-> [columnName |-> rows[i].COLUMN_NAME]]])

\* 585-607: indexMap = {}; one push per statistics row
MysqlIndexesFrom(prev, d) ==
    LET rows == SelectSeq(MysqlStatistics, LAMBDA r : MysqlKey(r) \in d)
    IN PushAll(EmptyMap, [i \in 1..Len(rows) |->
                            [key |-> MysqlKey(rows[i]),
                             val |-> [indexName |-> rows[i].INDEX_NAME,
                                      columnName |-> rows[i].COLUMN_NAME]]])

\* loadMysqlTableSizes (793-807): tableSizeCache[r.TABLE_NAME] = r.TABLE_ROWS,
\* assigned into the object the module holds.
MysqlSizesFrom(prev, d, raw) ==
    LET rows == SelectSeq(MysqlTables, LAMBDA r : MysqlKey(r) \in d)
    IN PutAll(prev, [i \in 1..Len(rows) |->
                       [key |-> MysqlKey(rows[i]),
                        val |-> CellOf(raw, MysqlKey(rows[i]),
                                       JsNumber(rows[i].TABLE_ROWS))]])

\* ------------------------------------------ loadAllPostgresSchemas (612-697)
\* 634-689: per schema, the rows of its base tables pushed under schema.table
RECURSIVE PgSchemasLoop(_, _, _)
PgSchemasLoop(local, schemas, d) ==
    IF schemas = <<>> THEN local
    ELSE LET rows == SelectSeq(PgColumns, LAMBDA r :
                        r.table_schema = Head(schemas)
                        /\ <<r.table_schema, r.table_name>> \in d)
         IN PgSchemasLoop(
                PushAll(local, [i \in 1..Len(rows) |->
                                  [key |-> QualifiedTableName(Head(schemas),
                                                              rows[i].table_name),
                                   val |-> [columnName |-> rows[i].column_name]]]),
                Tail(schemas), d)

\* Variant: a schema whose column query throws ends the load with nothing.
PgSchemaFrom_Abort(prev, d, failing) ==
    IF failing # {} THEN EmptyMap ELSE PgSchemasLoop(EmptyMap, PgSchemata, d)

\* 635-688: a schema whose column query throws is logged and skipped; nothing
\* of it was pushed before the throw.
PgSchemaFrom(prev, d, failing) ==
    PgSchemasLoop(EmptyMap, SelectSeq(PgSchemata, LAMBDA sn : <<sn>> \notin failing), d)

\* loadAllPostgresIndexes (862-946): indexMap = {}; a table's list is set to []
\* when the ordered rows reach the table; one push per column of the
\* parenthesised list of indexdef, seqInIndex counting from 1.
RECURSIVE PgIndexLoop(_, _, _)
PgIndexLoop(m, cur, rows) ==
    IF rows = <<>> THEN m
    ELSE LET r == Head(rows)
             q == PgKey(r)
             m1 == IF cur # q THEN Put(m, q, <<>>) ELSE m
             cols == [i \in 1..Len(r.columns) |->
                        [key |-> q,
                         val |-> [indexName |-> r.indexname, columnName |-> r.columns[i],
                                  seqInIndex |-> i]]]
         IN PgIndexLoop(PushAll(m1, cols), q, Tail(rows))

PgIndexesFrom(prev, d) ==
    PgIndexLoop(EmptyMap, <<>>, SelectSeq(PgIndexes, LAMBDA r : <<r.schemaname, r.tablename>> \in d))

\* loadAllPostgresTableSizes (809-860): tableSizeCache = {}; per schema,
\* tableSizeCache[schemaname || '.' || relname] = parseInt(n_live_tup) || 0
\* (the driver hands a bigint over as a string of digits)
\* 826-850: a schema whose query throws is logged and skipped.
PgSizesFrom(prev, d, failing, raw) ==
    LET rows == SelectSeq(PgStatUserTables, LAMBDA r :
                    /\ <<r.schemaname, r.relname>> \in d
                    /\ <<r.schemaname>> \notin failing)
    IN PutAll(EmptyMap, [i \in 1..Len(rows) |->
                           [key |-> QualifiedTableName(rows[i].schemaname,
                                                       rows[i].relname),
                            val |-> OrZero(parseInt(
                                      CellOf(raw, <<rows[i].schemaname, rows[i].relname>>,
                                             JsDigits(rows[i].n_live_tup))))]])

\* ------------------------------------------------ loadMongoSchemaMap (51-92)
Min2(a, b) == IF a < b THEN a ELSE b
\* The $sample stage returns sampleSize documents drawn at random, all of
\* them when the collection holds no more.  A draw is the number of documents
\* of the rare shape among them.
Draws(c) ==
    LET docs == MongoDocs(c)
        n == Min2(SampleSize, docs.nMain + docs.nRare)
    IN {r \in 0..docs.nRare : n - r >= 0 /\ n - r <= docs.nMain}

\* inferFieldsFromDocuments (94-131) on documents of top-level fields: one
\* entry per field path seen, sorted by columnName.
InferFields(c, r) ==
    LET docs == MongoDocs(c)
        n == Min2(SampleSize, docs.nMain + docs.nRare)
        seen == (IF n - r > 0 THEN docs.main ELSE {}) \cup (IF r > 0 THEN docs.rare ELSE {})
        paths == SelectSeq(FieldOrder, LAMBDA f : f \in seen)
    IN [i \in 1..Len(paths) |-> [columnName |-> paths[i]]]

\* 57-90: localSchemaMap[collectionName] = fieldSchema for each collection;
\* 84-87: localSchemaMap[collectionName] = [] when its sampling throws
MongoSchemaFrom(prev, d, draw, failing) ==
    LET cols == SelectSeq(MongoCollections, LAMBDA c : <<c>> \in d)
    IN PutAll(EmptyMap, [i \in 1..Len(cols) |->
                           [key |-> <<cols[i]>>,
                            val |-> IF <<cols[i]>> \in failing THEN <<>>
                                    ELSE InferFields(cols[i], draw[cols[i]])]])

\* loadMongoCollectionStats (250-275): localSizeCache[name] = stats.count || 0;
\* 268-271: 0 when collStats throws
MongoSizesFrom(prev, d, failing, raw) ==
    LET cols == SelectSeq(MongoCollections, LAMBDA c : <<c>> \in d)
    IN PutAll(EmptyMap, [i \in 1..Len(cols) |->
                           [key |-> <<cols[i]>>,
                            val |-> IF <<cols[i]>> \in failing THEN JsNumber(0)
                                    ELSE OrZero(CellOf(raw, <<cols[i]>>,
                                                       JsNumber(MongoDocs(cols[i]).nMain
                                                                + MongoDocs(cols[i]).nRare)))]])

\* ------------------------------------------ loadDatabricksSchemaMap (277-332)
DbxSchemaFrom(prev, d) ==
    LET rows == SelectSeq(DbxColumns, LAMBDA r : DbxKey(r) \in d)
    IN PushAll(EmptyMap, [i \in 1..Len(rows) |->
                            [key |-> DbxKey(rows[i]),
                             val |-> [columnName |-> rows[i].column_name]]])

\* Variant: a table whose DESCRIBE DETAIL throws gets no entry.
DbxBatchedSizes_Skip(d, failing, raw) ==
    LET rows == SelectSeq(DbxTables, LAMBDA r : DbxKey(r) \in d /\ DbxKey(r) \notin failing)
    IN PutAll(EmptyMap, [i \in 1..Len(rows) |->
                           [key |-> DbxKey(rows[i]),
                            val |-> OrZero(parseInt(CellOf(raw, DbxKey(rows[i]),
                                                           JsNumber(rows[i].numRows))))]])

\* loadDatabricksTableSizes, the batched tier (364-411): for every table of
\* system.information_schema.tables, localSizeCache[qualified_name] =
\* parseInt(numRows, 10) || 0 of its DESCRIBE DETAIL;
\* 389-392: rowCount 0 for a table whose DESCRIBE DETAIL throws
DbxBatchedSizes(d, failing, raw) ==
    LET rows == SelectSeq(DbxTables, LAMBDA r : DbxKey(r) \in d)
    IN PutAll(EmptyMap, [i \in 1..Len(rows) |->
                           [key |-> DbxKey(rows[i]),
                            val |-> IF DbxKey(rows[i]) \in failing THEN JsNumber(0)
                                    ELSE OrZero(parseInt(CellOf(raw, DbxKey(rows[i]),
                                                                JsNumber(rows[i].numRows))))]])

\* 446-456: the row count of a DESCRIBE EXTENDED description.  Its Statistics
\* row spells the count as "<digits> rows" when the table has statistics; a
\* description without that row, or whose Statistics text has no such match,
\* leaves rowCount 0.
StatisticsRowCount(cell) == IF cell.t \in {"number", "digits"} THEN JsNumber(cell.n)
                            ELSE JsNumber(0)

\* loadDatabricksTableSizes, the fallback tier (416-474): SHOW TABLES in every
\* schema of SHOW SCHEMAS, then DESCRIBE EXTENDED of every table;
\* 461-464: 0 for a table whose DESCRIBE EXTENDED throws; 467-469: a schema
\* whose SHOW TABLES throws is logged and skipped
DbxFallbackSizes(d, failing, raw) ==
    LET rows == SelectSeq(DbxTables, LAMBDA r :
                    /\ DbxKey(r) \in d
                    /\ <<r.table_catalog, r.table_schema>> \notin failing)
    IN PutAll(EmptyMap, [i \in 1..Len(rows) |->
                           [key |-> DbxKey(rows[i]),
                            val |-> IF DbxKey(rows[i]) \in failing THEN JsNumber(0)
                                    ELSE StatisticsRowCount(
                                             CellOf(raw, DbxKey(rows[i]),
                                                    JsNumber(rows[i].numRows)))]])

\* loadDatabricksTableSizes (334-481): the batched tier when the table listing
\* of system.information_schema answers with tables (364), the fallback tier
\* when it throws (412-414) or lists nothing; tableSizeCache = localSizeCache
DbxSizesFrom(prev, d, f) ==
    IF f.tier = "batched" /\ d # {}
    THEN DbxBatchedSizes(d, f.parts, f.raw)
    ELSE DbxFallbackSizes(d, f.parts, f.raw)

\* ------------------------------------------------ initMetadata, step by step
\* meta is the one initMetadata call in progress: the branch it took, the
\* await it is suspended at, and its driver connection.
MetaIdle == [pc |-> "idle", kind |-> "none", disc |-> "none", client |-> "none",
             out |-> "none", failed |-> "none", parts |-> {}, tier |-> "none"]
NoHist == [last |-> "none", lastDb |-> {}, prev |-> "none", prevDb |-> {},
           prevShape |-> [schema |-> <<>>, index |-> <<>>, sizes |-> {}]]

\* Keys and per-key entry counts of a map of lists.
Shape(m) == [k \in DOMAIN m |-> Len(m[k])]
ShapeNow == [schema |-> Shape(schemaMap), index |-> Shape(indexMap),
             sizes |-> DOMAIN tableSizeCache]

InitMeta ==
    /\ InitPoolVars
    /\ schemaMap = EmptyMap /\ indexMap = EmptyMap /\ tableSizeCache = EmptyMap
    /\ db = [kind \in Kinds |-> Universe(kind)]
    /\ meta = MetaIdle
    /\ metaHist = NoHist
    /\ InitInferIdle
    /\ InitRelayIdle

\* cfg.databaseType as a caller can give it: the four kinds, and another string.
Discriminators == Kinds \cup {"sqlite"}

\* toolRegistry.ts 474, 490, 521, 538: the if / else-if chain; the final else
\* is the mysql branch.
Branch(disc) == IF disc \in {"mongodb", "databricks", "postgres"} THEN disc ELSE "mysql"

\* What a loader's environment does to it during one load: top = 1, its
\* first catalog query (or listing) throws; top = 2, its second one does;
\* parts, the schemas, collections or tables (by name) whose own query throws.
\* raw, the row-count cells that differ from the counts the catalog holds;
\* tier, whether the table listing of system.information_schema is available
\* to the databricks size loader.
NoFault == [top |-> 0, parts |-> {}, raw |-> EmptyMap, tier |-> "batched"]
FaultParts(kind, pc) ==
    CASE kind = "postgres" /\ pc \in {"schema", "sizes"} -> {<<"public">>, <<"sales">>}
      [] kind = "mongodb" -> {<<"carts">>, <<"events">>}
      [] kind = "databricks" /\ pc = "sizes" -> Universe("databricks")
      [] OTHER -> {}
FaultTops(kind, pc) ==
    IF kind = "mysql" /\ pc = "schema" THEN {0, 1, 2}
    ELSE IF kind \in Kinds THEN {0, 1} ELSE {0}
Faults(kind, pc) ==
    {[NoFault EXCEPT !.top = t] : t \in FaultTops(kind, pc)}
    \cup {[NoFault EXCEPT !.parts = p] : p \in SUBSET FaultParts(kind, pc)}

\* A loader threw: initMetadata raises.  The mongodb branch rethrows from its
\* catch (484-489) and the mysql branch has no handler (538-550); neither
\* reaches its close.
Raised(m) == [m EXCEPT !.pc = "idle", !.out = "threw"]

\* What has failed so far in the call: "listing" when the schema listing of
\* the postgres loaders threw, "query" when another loader's query did, and the
\* parts whose own query threw; the tier the databricks size loader ran.
Noted(m, f) ==
    [m EXCEPT !.failed = IF f.top = 0 THEN @
                         ELSE IF m.kind = "postgres" /\ m.pc \in {"schema", "sizes"}
                              THEN "listing" ELSE "query",
              !.parts = @ \cup f.parts,
              !.tier = IF m.kind = "databricks" /\ m.pc = "sizes" /\ f.top = 0
                       THEN (IF f.tier = "batched" /\ db["databricks"] # {}
                             THEN "batched" ELSE "fallback")
                       ELSE @]

\* toolRegistry.ts 472-548: the branch on cfg.databaseType, up to the driver
\* connection being open.  The history remembers the previous completed call.
InitMetadata(disc) ==
    /\ meta.pc = "idle"
    /\ meta' = [pc |-> "schema", kind |-> Branch(disc), disc |-> disc, client |-> "open",
                out |-> "none", failed |-> "none", parts |-> {}, tier |-> "none"]
    /\ metaHist' = [metaHist EXCEPT !.prev = metaHist.last, !.prevDb = metaHist.lastDb,
                                    !.prevShape = ShapeNow]
    /\ UNCHANGED <<schemaMap, indexMap, tableSizeCache, db, poolVars, inferVars, relayVars, sizeVars>>

\* loadSchemaMap (part_001 497-509) dispatching on databaseType.
\* mysql (511-610): a throwing query propagates; the second query runs after
\* schemaMap was assigned.  postgres (612-697): a throwing listing is caught,
\* schemaMap = {}.  mongodb (51-92): a throwing listCollections propagates.
\* databricks (277-332): anything thrown is caught, schemaMap = {}.
LoadSchemaMap(f) ==
    /\ meta.pc = "schema"
    /\ \/ /\ meta.kind = "mysql"
          /\ schemaMap' = IF f.top = 1 THEN schemaMap
                          ELSE MysqlSchemaFrom(schemaMap, db["mysql"])
          /\ indexMap' = IF f.top # 0 THEN indexMap
                         ELSE MysqlIndexesFrom(indexMap, db["mysql"])
       \/ /\ meta.kind = "postgres"
          /\ schemaMap' = IF f.top = 1 THEN EmptyMap
                          ELSE PgSchemaFrom(schemaMap, db["postgres"], f.parts)
          /\ UNCHANGED indexMap
       \/ /\ meta.kind = "mongodb"
          /\ \E draw \in [{"carts", "events"} -> 0..1] :
                /\ \A c \in DOMAIN draw : draw[c] \in Draws(c)
                /\ schemaMap' = IF f.top = 1 THEN schemaMap
                                ELSE MongoSchemaFrom(schemaMap, db["mongodb"], draw, f.parts)
          /\ UNCHANGED indexMap
       \/ /\ meta.kind = "databricks"
          /\ schemaMap' = IF f.top = 1 THEN EmptyMap
                          ELSE DbxSchemaFrom(schemaMap, db["databricks"])
          /\ UNCHANGED indexMap
    /\ meta' = IF f.top # 0 /\ meta.kind \in {"mysql", "mongodb"}
               THEN Raised(Noted(meta, f))
               ELSE [Noted(meta, f) EXCEPT !.pc = IF meta.kind = "postgres" THEN "indexes"
                                                  ELSE "sizes"]
    /\ UNCHANGED <<tableSizeCache, db, metaHist, poolVars, inferVars, relayVars, sizeVars>>

\* toolRegistry.ts 535: only the postgres branch loads indexes on its own;
\* loadAllPostgresIndexes (862-946) catches anything thrown, indexMap = {}
LoadAllPostgresIndexes(f) ==
    /\ meta.pc = "indexes"
    /\ indexMap' = IF f.top = 1 THEN EmptyMap ELSE PgIndexesFrom(indexMap, db["postgres"])
    /\ meta' = [Noted(meta, f) EXCEPT !.pc = "sizes"]
    /\ UNCHANGED <<schemaMap, tableSizeCache, db, metaHist, poolVars, inferVars, relayVars, sizeVars>>

\* loadTableSizes (part_001 780-791) dispatching on databaseType, then the
\* driver connection is closed and the module's three maps are returned
\* (toolRegistry.ts 483, 512, 537, 549, 555-563).  mysql (793-807) and
\* mongodb (250-275): a throwing query or listing propagates.  postgres
\* (809-860): the cache is reset first and a throwing listing is caught.
\* databricks (334-481): when the session cannot be opened, or neither the
\* table listing nor SHOW SCHEMAS can be run, the throw is caught and
\* tableSizeCache = {}.
LoadTableSizes(f) ==
    /\ meta.pc = "sizes"
    /\ tableSizeCache' =
          CASE meta.kind = "mysql" ->
                  IF f.top = 1 THEN tableSizeCache
                  ELSE MysqlSizesFrom(tableSizeCache, db["mysql"], f.raw)
            [] meta.kind = "postgres" ->
                  IF f.top = 1 THEN EmptyMap
                  ELSE PgSizesFrom(tableSizeCache, db["postgres"], f.parts, f.raw)
            [] meta.kind = "mongodb" ->
                  IF f.top = 1 THEN tableSizeCache
                  ELSE MongoSizesFrom(tableSizeCache, db["mongodb"], f.parts, f.raw)
            [] meta.kind = "databricks" ->
                  IF f.top = 1 THEN EmptyMap
                  ELSE DbxSizesFrom(tableSizeCache, db["databricks"], f)
    /\ IF f.top # 0 /\ meta.kind \in {"mysql", "mongodb"}
       THEN /\ meta' = Raised(Noted(meta, f))
            /\ UNCHANGED metaHist
       ELSE /\ meta' = [Noted(meta, f) EXCEPT !.pc = "idle", !.kind = "none",
                                              !.client = "closed", !.out = "returned"]
            /\ metaHist' = [metaHist EXCEPT !.last = meta.disc, !.lastDb = db[meta.kind]]
    /\ UNCHANGED <<schemaMap, indexMap, db, poolVars, inferVars, relayVars, sizeVars>>

\* Schema drift between two calls: a table or collection is dropped from one
\* of the databases.
DropTable(kind, e) ==
    /\ meta.pc = "idle"
    /\ e \in db[kind]
    /\ db' = [db EXCEPT ![kind] = @ \ {e}]
    /\ UNCHANGED <<schemaMap, indexMap, tableSizeCache, meta, metaHist, poolVars, inferVars, relayVars, sizeVars>>

\* The loads of the four kinds against drifting databases, nothing failing.
NextMeta ==
    \/ \E kind \in Kinds : InitMetadata(kind)
    \/ LoadSchemaMap(NoFault)
    \/ LoadAllPostgresIndexes(NoFault)
    \/ LoadTableSizes(NoFault)
    \/ \E kind \in Kinds : \E e \in Universe(kind) : DropTable(kind, e)

SpecMeta == InitMeta /\ [][NextMeta]_vars

\* The loads of any discriminator against databases whose queries can fail.
NextFaulty ==
    \/ \E disc \in Discriminators : InitMetadata(disc)
    \/ \E f \in Faults(meta.kind, "schema") : LoadSchemaMap(f)
    \/ \E f \in Faults(meta.kind, "indexes") : LoadAllPostgresIndexes(f)
    \/ \E f \in Faults(meta.kind, "sizes") : LoadTableSizes(f)

SpecFaulty == InitMeta /\ [][NextFaulty]_vars

\* What the size loaders can meet: cells that are null, undefined or a text
\* without digits in place of a count, the databricks table listing
\* unavailable, and per-schema and per-table queries that throw.
RawValues == {JsNull, JsUndefined, JsText}
RawCells(kind) == UNION {[S -> RawValues] : S \in SUBSET Universe(kind)}
DbxSchemas == {<<"main", "default">>, <<"main", "sales">>}
SizeInputs(kind) ==
    {[top |-> 0, parts |-> p, raw |-> r, tier |-> t] :
       p \in SUBSET (FaultParts(kind, "sizes")
                      \cup (IF kind = "databricks" THEN DbxSchemas ELSE {})),
       r \in RawCells(kind),
       t \in (IF kind = "databricks" THEN {"batched", "fallback"} ELSE {"batched"})}

\* The loads of the four kinds, the size loaders meeting any of SizeInputs.
LoadTableSizesOnAnyInput ==
    /\ meta.pc = "sizes"
    /\ \E f \in SizeInputs(meta.kind) : LoadTableSizes(f)

NextSizes ==
    \/ \E kind \in Kinds : InitMetadata(kind)
    \/ LoadSchemaMap(NoFault)
    \/ LoadAllPostgresIndexes(NoFault)
    \/ LoadTableSizesOnAnyInput

SpecSizes == InitMeta /\ [][NextSizes]_vars

\* ----------------------------------------------------------------------
\* Claims about the metadata store
\* ----------------------------------------------------------------------
\* An initMetadata call has returned and none is in progress: the three maps
\* are what that call returned.
Returned_initMetadata == meta.pc = "idle" /\ metaHist.last # "none"
\* The last two completed calls used the same configuration.
Reloaded == Returned_initMetadata /\ metaHist.prev = metaHist.last
DocCount(e) == MongoDocs(e[1]).nMain + MongoDocs(e[1]).nRare

\* C8: after a reload of the same configuration against a database that has
\* fewer tables than at the previous load, none of schemaMap, indexMap and
\* tableSizeCache holds a key of a table that only the previous load saw.
C8_ReloadRetainsNoDroppedTable ==
    (Reloaded /\ metaHist.lastDb \subseteq metaHist.prevDb
              /\ metaHist.lastDb # metaHist.prevDb)
    => \A e \in metaHist.prevDb \ metaHist.lastDb :
          /\ ~Has(schemaMap, e)
          /\ ~Has(indexMap, e)
          /\ ~Has(tableSizeCache, e)

\* C9: when initMetadata(cfg) has returned, every key of each of the three
\* maps is a table of cfg's database as that call read it; no entry of an
\* earlier call for another configuration survives.
C9_ResultOnlyFromThisCall ==
    Returned_initMetadata
    => /\ DOMAIN schemaMap \subseteq metaHist.lastDb
       /\ DOMAIN indexMap \subseteq metaHist.lastDb
       /\ DOMAIN tableSizeCache \subseteq metaHist.lastDb

\* C10 (as stated): two initMetadata calls in sequence with the same
\* configuration against an unchanged database return maps with the same keys
\* and, per key, the same number of columns / index entries.
C10_ReloadIdempotent ==
    (Reloaded /\ metaHist.prevDb = metaHist.lastDb) => ShapeNow = metaHist.prevShape

\* C10 (amended): the same, where the backend is not mongodb or every
\* collection holds at most sampleSize documents, so that the sample is the
\* whole collection.
C10_ReloadIdempotentOnWholeSample ==
    (/\ Reloaded /\ metaHist.prevDb = metaHist.lastDb
     /\ metaHist.last = "mongodb" => \A e \in metaHist.lastDb : DocCount(e) <= SampleSize)
    => ShapeNow = metaHist.prevShape

\* A non-empty database has been loaded twice in a row by the same
\* configuration, unchanged in between, under the amended condition.
C10_Witness ==
    /\ Reloaded /\ metaHist.prevDb = metaHist.lastDb
    /\ metaHist.lastDb # {}
    /\ DOMAIN schemaMap # {} /\ DOMAIN tableSizeCache # {}
    /\ metaHist.last = "mongodb" => \A e \in metaHist.lastDb : DocCount(e) <= SampleSize

\* ----------------------------------------------------------------------
\* Claims about discriminators and failing loaders
\* ----------------------------------------------------------------------
\* The schema loader of the call in progress has run and the call goes on.
SchemaLoaded == meta.pc \in {"indexes", "sizes"}
\* The call has returned and nothing failed in it.
ReturnedClean(disc) ==
    /\ meta.pc = "idle" /\ meta.out = "returned" /\ meta.disc = disc
    /\ meta.failed = "none" /\ meta.parts = {}
\* What the postgres catalog says of table e = <<schema, table>>.
PgColumnsOf(e) ==
    LET rows == SelectSeq(PgColumns, LAMBDA r : <<r.table_schema, r.table_name>> = e)
    IN [i \in 1..Len(rows) |-> [columnName |-> rows[i].column_name]]
PgIndexNamesOf(e) ==
    {PgIndexes[i].indexname : i \in {j \in 1..Len(PgIndexes) :
                                <<PgIndexes[j].schemaname, PgIndexes[j].tablename>> = e}}
PgRowsOf(e) ==
    LET rows == SelectSeq(PgStatUserTables, LAMBDA r : <<r.schemaname, r.relname>> = e)
    IN JsNumber(rows[1].n_live_tup)
\* The number of name parts of a key under each backend's qualification rule.
KeyParts(kind) ==
    CASE kind = "postgres" -> 2
      [] kind = "databricks" -> 3
      [] OTHER -> 1

\* C11: a discriminator that is none of the four kinds makes initMetadata
\* raise a configuration error: no backend's branch is taken for it and the
\* call does not return.
C11_UnknownDiscriminatorRaises ==
    meta.disc \notin (Kinds \cup {"none"})
    => /\ meta.kind = "none"
       /\ meta.out # "returned"

\* C12: a call in which a loader's catalog query threw does not return; only
\* the schema listing of the postgres loaders may fail without raising.
C12_TotalFailureRaises ==
    meta.out = "returned" => meta.failed # "query"

\* C13: in the postgres load, whichever schemas' column queries fail, the
\* load does not raise and every table of every other schema is in schemaMap
\* with its columns.
C13_FailingSchemaDoesNotAbortOthers ==
    /\ meta.kind = "postgres" => meta.out # "threw"
    /\ (meta.kind = "postgres" /\ SchemaLoaded /\ meta.failed = "none")
       => \A e \in db["postgres"] :
             <<e[1]>> \notin meta.parts
             => Has(schemaMap, e) /\ schemaMap[e] = PgColumnsOf(e)

\* The column query of schema public failed and the table of schema sales is
\* loaded.
C13_Witness ==
    /\ meta.kind = "postgres" /\ SchemaLoaded /\ meta.failed = "none"
    /\ meta.parts = {<<"public">>}
    /\ Has(schemaMap, <<"sales", "orders">>)
    /\ ~Has(schemaMap, <<"public", "orders">>)

\* C14: after a schema load in which the loading of some schemas or
\* collections failed, schemaMap has no key for an entity that failed and has
\* the entry of every entity that loaded.
C14_FailedEntityHasNoKey ==
    (SchemaLoaded /\ meta.kind \in {"postgres", "mongodb"} /\ meta.failed = "none")
    => \A e \in db[meta.kind] :
          IF <<e[1]>> \in meta.parts THEN ~Has(schemaMap, e) ELSE Has(schemaMap, e)

\* C15: after a postgres load, two tables of the same name in different
\* schemas are under two distinct keys in each of the three maps, each key
\* holding what the catalog says of its own table.
C15_SameNameTablesKeptApart ==
    ReturnedClean("postgres")
    => \A e1 \in db["postgres"], e2 \in db["postgres"] :
          (e1[1] # e2[1] /\ e1[2] = e2[2])
          => \E k1 \in DOMAIN schemaMap, k2 \in DOMAIN schemaMap :
                /\ k1 # k2
                /\ schemaMap[k1] = PgColumnsOf(e1) /\ schemaMap[k2] = PgColumnsOf(e2)
                /\ Has(tableSizeCache, k1) /\ Has(tableSizeCache, k2)
                /\ tableSizeCache[k1] = PgRowsOf(e1) /\ tableSizeCache[k2] = PgRowsOf(e2)
                /\ Has(indexMap, k1) /\ Has(indexMap, k2)
                /\ \A i \in 1..Len(indexMap[k1]) :
                      indexMap[k1][i].indexName \in PgIndexNamesOf(e1)
                /\ \A i \in 1..Len(indexMap[k2]) :
                      indexMap[k2][i].indexName \in PgIndexNamesOf(e2)
                /\ {indexMap[k1][i].indexName : i \in 1..Len(indexMap[k1])}
                      = PgIndexNamesOf(e1)

\* A postgres load of public.orders and sales.orders has returned.
C15_Witness ==
    /\ ReturnedClean("postgres")
    /\ {<<"public", "orders">>, <<"sales", "orders">>} \subseteq db["postgres"]
    /\ Has(schemaMap, <<"public", "orders">>) /\ Has(schemaMap, <<"sales", "orders">>)
    /\ Len(schemaMap[<<"public", "orders">>]) # Len(schemaMap[<<"sales", "orders">>])

\* C16: after a completed load every key of each of the three maps follows
\* the qualification rule of the backend that was loaded, so keys of
\* different rules are never together in one map.
C16_OneQualificationRule ==
    (meta.pc = "idle" /\ meta.out = "returned")
    => /\ \A k \in DOMAIN schemaMap : Len(k) = KeyParts(Branch(meta.disc))
       /\ \A k \in DOMAIN indexMap : Len(k) = KeyParts(Branch(meta.disc))
       /\ \A k \in DOMAIN tableSizeCache : Len(k) = KeyParts(Branch(meta.disc))

\* C17: when initMetadata has returned or raised, the connection it opened
\* is closed.
C17_ConnectionClosedOnExit ==
    meta.pc = "idle" => meta.client # "open"

-----------------------------------------------------------------------------
\* Part III: the document sampling inferencer
\*
\* A string is the sequence of its characters, so that template literals are
\* concatenations and localeCompare can look at the characters.

Str(c) == <<c>>

\* UTF-16 code unit of the characters that occur in field paths of the model
CodeUnit(c) ==
    CASE c = "." -> 46 [] c = "0" -> 48 [] c = "1" -> 49 [] c = "2" -> 50
      [] c = "B" -> 66 [] c = "[" -> 91 [] c = "]" -> 93 [] c = "a" -> 97

\* String.prototype.localeCompare with no locale argument compares by the
\* collation of the default locale: first by the primary weights of the
\* characters (punctuation before digits before letters, a letter's case
\* ignored), then, on a primary tie, by case (lower case first).
PrimaryWeight(c) ==
    CASE c = "." -> 1 [] c = "[" -> 2 [] c = "]" -> 3
      [] c = "0" -> 4 [] c = "1" -> 5 [] c = "2" -> 6
      [] c = "a" -> 7 [] c = "B" -> 8
TertiaryWeight(c) == IF c = "B" THEN 1 ELSE 0

\* -1, 0 or 1: the order of two sequences of numbers, element by element, a
\* proper prefix first
RECURSIVE LexCompare(_, _)
LexCompare(x, y) ==
    IF x = <<>> /\ y = <<>> THEN 0
    ELSE IF x = <<>> THEN -1
    ELSE IF y = <<>> THEN 1
    ELSE IF Head(x) < Head(y) THEN -1
    ELSE IF Head(x) > Head(y) THEN 1
    ELSE LexCompare(Tail(x), Tail(y))

\* 130: a.columnName.localeCompare(b.columnName)
localeCompare(a, b) ==
    LET primary == LexCompare([i \in 1..Len(a) |-> PrimaryWeight(a[i])],
                              [i \in 1..Len(b) |-> PrimaryWeight(b[i])])
    IN IF primary # 0 THEN primary
       ELSE LexCompare([i \in 1..Len(a) |-> TertiaryWeight(a[i])],
                       [i \in 1..Len(b) |-> TertiaryWeight(b[i])])

\* The order of two strings by their UTF-16 code units (the < of JavaScript
\* strings)
CodeUnitCompare(a, b) ==
    LexCompare([i \in 1..Len(a) |-> CodeUnit(a[i])], [i \in 1..Len(b) |-> CodeUnit(b[i])])

\* BSON values as the driver hands them to the inferencer.  kind is the
\* value's JavaScript type, with null, arrays and plain objects told apart;
\* entries is an object's own properties in Object.entries order, items an
\* array's elements.
Scalar(kind) == [kind |-> kind, entries |-> <<>>, items |-> <<>>]
Obj(entries) == [kind |-> "object", entries |-> entries, items |-> <<>>]
Arr(items) == [kind |-> "array", entries |-> <<>>, items |-> items]
Entry(key, value) == [key |-> key, value |-> value]

\* the typeof operator
typeof(v) == IF v.kind \in {"null", "object", "array"} THEN "object" ELSE v.kind

\* 166: `array<${elementType}>`
ArrayOf(elementType) ==
    CASE elementType = "string" -> "array<string>"
      [] elementType = "number" -> "array<number>"
      [] elementType = "boolean" -> "array<boolean>"
      [] elementType = "bigint" -> "array<bigint>"
      [] elementType = "undefined" -> "array<undefined>"
      [] OTHER -> "array<object>"

\* `${index}` for the indexes of value.slice(0, 3)
IndexString(index) == CASE index = 0 -> Str("0") [] index = 1 -> Str("1") [] OTHER -> Str("2")

\* 138: Object.entries(obj); an array's entries are its elements by index
EntriesOf(v) ==
    IF v.kind = "array"
    THEN [j \in 1..Len(v.items) |-> Entry(IndexString(j - 1), v.items[j])]
    ELSE v.entries

\* The sampled documents.  Field names differ in case; values cover every
\* branch of analyzeDocumentFields.
Documents ==
    { Obj(<<Entry(Str("a"), Scalar("string"))>>),
      Obj(<<Entry(Str("a"), Scalar("number"))>>),
      Obj(<<Entry(Str("a"), Scalar("boolean"))>>),
      Obj(<<Entry(Str("a"), Scalar("null"))>>),
      Obj(<<Entry(Str("B"), Scalar("string")), Entry(Str("a"), Scalar("number"))>>),
      Obj(<<Entry(Str("B"), Scalar("undefined"))>>),
      Obj(<<Entry(Str("B"), Scalar("bigint"))>>),
      Obj(<<Entry(Str("a"), Obj(<<Entry(Str("B"), Scalar("number"))>>))>>),
      Obj(<<Entry(Str("a"), Arr(<<>>))>>),
      Obj(<<Entry(Str("a"), Arr(<<Scalar("string")>>))>>),
      Obj(<<Entry(Str("a"), Arr(<<Scalar("null")>>))>>),
      Obj(<<Entry(Str("a"), Arr(<<Obj(<<Entry(Str("B"), Scalar("string"))>>),
                                  Obj(<<Entry(Str("B"), Scalar("null"))>>)>>))>>) }

\* 141-151: the entry a field path gets when it is first seen
NewFieldInfo(fieldPath) ==
    [name |-> fieldPath, types |-> <<>>, isArray |-> FALSE, isNested |-> FALSE,
     nullCount |-> 0, totalCount |-> 0, sampleValues |-> <<>>]

\* The entries of sampleValues.  A scalar of the model stands for one value
\* of its type, so a scalar is told by its kind; an array is entered as the
\* slice of its first three elements (179), an object as the text
\* '[nested object]' (186).
ScalarSample(value) == [kind |-> value.kind, items |-> <<>>]
ArraySample(value) ==
    [kind |-> "array",
     items |-> [j \in 1..(IF Len(value.items) < 3 THEN Len(value.items) ELSE 3) |->
                  value.items[j].kind]]
NestedSample == [kind |-> "[nested object]", items |-> <<>>]

\* 192-194: pushed while fewer than 10 are held and includes() does not find it
PushUnique(sampleValues, v) ==
    IF Len(sampleValues) < 10 /\ ~\E j \in 1..Len(sampleValues) : sampleValues[j] = v
    THEN Append(sampleValues, v) ELSE sampleValues

\* Map.has, Map.get on the fieldMap, a sequence in insertion order
HasField(fm, fieldPath) == \E i \in 1..Len(fm) : fm[i].name = fieldPath
FieldIndex(fm, fieldPath) == CHOOSE i \in 1..Len(fm) : fm[i].name = fieldPath

\* Set.add on the types, a sequence in insertion order
AddType(types, type) ==
    IF \E i \in 1..Len(types) : types[i] = type THEN types ELSE Append(types, type)

\* 133-197
RECURSIVE analyzeDocumentFields(_, _, _)
RECURSIVE analyzeItems(_, _, _, _)
analyzeDocumentFields(entries, fm, prefix) ==
    IF entries = <<>> THEN fm
    ELSE
      LET key == Head(entries).key
          value == Head(entries).value
          fieldPath == IF prefix # <<>> THEN prefix \o Str(".") \o key ELSE key
          fm1 == IF HasField(fm, fieldPath) THEN fm ELSE Append(fm, NewFieldInfo(fieldPath))
          i == FieldIndex(fm1, fieldPath)
          fm2 == [fm1 EXCEPT ![i].totalCount = @ + 1]
          fm3 ==
            IF value.kind \in {"null", "undefined"}
            THEN [fm2 EXCEPT ![i].nullCount = @ + 1, ![i].types = AddType(@, "null")]
            ELSE IF value.kind = "array"
            THEN LET fmA == [fm2 EXCEPT ![i].isArray = TRUE,
                                        ![i].types = AddType(@, "array")]
                     fmC ==
                       IF Len(value.items) > 0
                       THEN LET elementType == typeof(value.items[1])
                                fmB == [fmA EXCEPT ![i].types =
                                                     AddType(@, ArrayOf(elementType))]
                            IN IF elementType = "object" /\ value.items[1].kind # "null"
                               THEN analyzeItems(value.items, 1,
                                                 [fmB EXCEPT ![i].isNested = TRUE],
                                                 fieldPath)
                               ELSE fmB
                       ELSE fmA
                 \* 179
                 IN [fmC EXCEPT ![i].sampleValues = Append(@, ArraySample(value))]
            ELSE IF typeof(value) = "object"
            THEN LET fmN == analyzeDocumentFields(
                                EntriesOf(value),
                                [fm2 EXCEPT ![i].isNested = TRUE,
                                            ![i].types = AddType(@, "object")],
                                fieldPath)
                 \* 186
                 IN [fmN EXCEPT ![i].sampleValues = Append(@, NestedSample)]
            ELSE [fm2 EXCEPT ![i].types = AddType(@, typeof(value)),
                             ![i].sampleValues = PushUnique(@, ScalarSample(value))]
      IN analyzeDocumentFields(Tail(entries), fm3, prefix)

\* 171-175: value.slice(0, 3).forEach((item, index) => ...), index + 1 = j
analyzeItems(items, j, fm, fieldPath) ==
    IF j > Len(items) \/ j > 3 THEN fm
    ELSE
      LET item == items[j]
          fm1 == IF typeof(item) = "object" /\ item.kind # "null"
                 THEN analyzeDocumentFields(
                          EntriesOf(item), fm,
                          fieldPath \o Str("[") \o IndexString(j - 1) \o Str("]"))
                 ELSE fm
      IN analyzeItems(items, j + 1, fm1, fieldPath)

\* 106-108: docs.forEach(doc => analyzeDocumentFields(doc, fieldMap, '')), on
\* the first n documents
RECURSIVE AnalyzeDocs(_, _)
AnalyzeDocs(docs, n) ==
    IF n = 0 THEN <<>>
    ELSE analyzeDocumentFields(EntriesOf(docs[n]), AnalyzeDocs(docs, n - 1), <<>>)

\* 203
typePriority == <<"string", "number", "boolean", "object", "array", "null">>

\* Variant: the type that was observed first.
getMostCommonType_FirstSeen(types) == types[1]

\* 199-210
getMostCommonType(types) ==
    IF Len(types) = 1 THEN types[1]
    ELSE LET hits == {k \in 1..Len(typePriority) :
                        \E j \in 1..Len(types) : types[j] = typePriority[k]}
         IN IF hits # {}
            THEN typePriority[CHOOSE k \in hits : \A h \in hits : k <= h]
            ELSE IF Len(types) > 0 THEN types[1] ELSE "unknown"

\* JavaScript numbers are IEEE-754 doubles: 53 significant binary digits,
\* results rounded to nearest, ties to even.  A positive double is
\* 1.f * 2^exp, its 52 fraction digits f held as mant = <<c1, c2, c3, c4>>,
\* three limbs of 16 digits and one of 4, so that every intermediate product
\* stays below 2^31; zero has no mantissa.  The counts of the inferencer are
\* small integers, which doubles hold exactly.
Limb == 65536
LastLimb == 16
Zero == [mant |-> <<>>, exp |-> 0]

\* The double above x (x positive)
NextUp(x) ==
    LET c4 == x.mant[4] + 1
        c3 == x.mant[3] + (c4 \div LastLimb)
        c2 == x.mant[2] + (c3 \div Limb)
        c1 == x.mant[1] + (c2 \div Limb)
    IN [mant |-> <<c1 % Limb, c2 % Limb, c3 % Limb, c4 % LastLimb>>,
        exp |-> x.exp + (c1 \div Limb)]

\* Round to nearest, ties to even: kept holds the first 53 digits of the
\* exact result, guard is its next digit, sticky says that the digits after
\* that are not all 0.
RoundToNearestEven(kept, guard, sticky) ==
    IF guard = 1 /\ (sticky \/ kept.mant[4] % 2 = 1) THEN NextUp(kept) ELSE kept

\* n / d = (n1 / d1) * 2^e with d1 <= n1 < 2 * d1
RECURSIVE Scale(_, _, _)
Scale(n, d, e) ==
    IF n >= 2 * d THEN Scale(n, 2 * d, e + 1)
    ELSE IF n < d THEN Scale(2 * n, d, e - 1)
    ELSE [n |-> n, d |-> d, e |-> e]

\* The / of two doubles that hold the integers n >= 0 and d > 0 (below 2^14):
\* long division, one limb at a time
Divide(n, d) ==
    IF n = 0 THEN Zero
    ELSE LET s == Scale(n, d, 0)
             r0 == s.n - s.d
             r1 == (r0 * Limb) % s.d
             r2 == (r1 * Limb) % s.d
             r3 == (r2 * Limb) % s.d
             last == (r3 * LastLimb * 2) \div s.d
         IN RoundToNearestEven(
                [mant |-> <<(r0 * Limb) \div s.d, (r1 * Limb) \div s.d,
                            (r2 * Limb) \div s.d, last \div 2>>,
                 exp |-> s.e],
                last % 2,
                (r3 * LastLimb * 2) % s.d # 0)

\* The * of a double and a double that holds the positive integer k (below
\* 2^14): the limbs times k with their carries, top the digits before the
\* point, then shift digits to the right until one digit is left before it
Multiply(x, k) ==
    IF x = Zero THEN Zero
    ELSE LET p4 == x.mant[4] * k
             p3 == x.mant[3] * k + (p4 \div LastLimb)
             p2 == x.mant[2] * k + (p3 \div Limb)
             p1 == x.mant[1] * k + (p2 \div Limb)
             top == k + (p1 \div Limb)
             c1 == p1 % Limb
             c2 == p2 % Limb
             c3 == p3 % Limb
             c4 == p4 % LastLimb
             shift == CHOOSE sh \in 0..15 : 2^sh <= top /\ top < 2^(sh + 1)
             low == 2^shift
             high == Limb \div low
             tail == (c3 % low) * LastLimb + c4
             dropped == tail % low
         IN RoundToNearestEven(
                [mant |-> <<(top - low) * high + (c1 \div low),
                            (c1 % low) * high + (c2 \div low),
                            (c2 % low) * high + (c3 \div low),
                            tail \div low>>,
                 exp |-> x.exp + shift],
                IF shift = 0 THEN 0 ELSE dropped \div (low \div 2),
                shift > 0 /\ dropped % (low \div 2) # 0)

\* Variant: every occurrence is counted, the null ones too.
occurrenceCount_Total(fieldInfo) == fieldInfo.totalCount

\* 126
occurrenceCount(fieldInfo) == fieldInfo.totalCount - fieldInfo.nullCount

\* 113-128: the descriptor of one entry of the fieldMap
FieldDescriptor(fieldInfo) ==
    [columnName |-> fieldInfo.name,
     dataType |-> getMostCommonType(fieldInfo.types),
     isNullable |-> IF fieldInfo.nullCount > 0 THEN "YES" ELSE "NO",
     nullPercentage |-> Multiply(Divide(fieldInfo.nullCount, fieldInfo.totalCount), 100),
     isArray |-> fieldInfo.isArray,
     isNested |-> fieldInfo.isNested,
     allTypes |-> fieldInfo.types,
     occurrenceCount |-> occurrenceCount(fieldInfo)]

\* Variant: the descriptors stay in the insertion order of the fieldMap.
SortFields_InsertionOrder(fs) == fs

\* 130: fields.sort((a, b) => a.columnName.localeCompare(b.columnName)), a
\* stable sort
RECURSIVE SortFields(_)
SortFields(fs) ==
    IF fs = <<>> THEN <<>>
    ELSE LET last == fs[Len(fs)]
             front == SortFields(SubSeq(fs, 1, Len(fs) - 1))
             before == SelectSeq(front, LAMBDA g :
                                   localeCompare(g.columnName, last.columnName) <= 0)
             after == SelectSeq(front, LAMBDA g :
                                  localeCompare(g.columnName, last.columnName) > 0)
         IN before \o <<last>> \o after

\* 111-130: one descriptor for each entry of the fieldMap, sorted
ConvertFields(fm) == SortFields([i \in 1..Len(fm) |-> FieldDescriptor(fm[i])])

\* 94-131
inferFieldsFromDocuments(docs) == ConvertFields(AnalyzeDocs(docs, Len(docs)))

\* The samples: every sequence of 1..MaxDocs documents, and the full samples
\* of sampleSize documents of one field that is null in the first n of them
\* and a number in the others.  (72-76: an empty sample is not inferred.)
MaxDocs == 3
SmallSamples == UNION {[1..n -> Documents] : n \in 1..MaxDocs}
FullSamples ==
    {[j \in 1..SampleSize |->
        Obj(<<Entry(Str("a"), IF j <= n THEN Scalar("null") ELSE Scalar("number"))>>)] :
     n \in 0..SampleSize}

InitInfer == InitPoolVars /\ InitMetaIdle /\ InitInferIdle /\ InitRelayIdle

\* 68-70, 79: the documents of the $sample aggregation are handed to
\* inferFieldsFromDocuments; 95-103: it starts with an empty fieldMap
SampleDocuments ==
    /\ inferPc = "idle"
    /\ \E docs \in SmallSamples \cup FullSamples : sample' = docs
    /\ analyzed' = 0
    /\ fieldMap' = <<>>
    /\ fields' = <<>>
    /\ inferPc' = "analyzing"
    /\ UNCHANGED <<poolVars, metaVars, relayVars, sizeVars>>

\* 106-108: one iteration of docs.forEach
AnalyzeDocument ==
    /\ inferPc = "analyzing"
    /\ analyzed < Len(sample)
    /\ fieldMap' = analyzeDocumentFields(EntriesOf(sample[analyzed + 1]), fieldMap, <<>>)
    /\ analyzed' = analyzed + 1
    /\ UNCHANGED <<sample, fields, inferPc, poolVars, metaVars, relayVars, sizeVars>>

\* 110-130: after the last document, the descriptors are built, sorted and
\* returned
ReturnFields ==
    /\ inferPc = "analyzing"
    /\ analyzed = Len(sample)
    /\ fields' = ConvertFields(fieldMap)
    /\ inferPc' = "done"
    /\ UNCHANGED <<sample, analyzed, fieldMap, poolVars, metaVars, relayVars, sizeVars>>

NextInfer ==
    \/ SampleDocuments
    \/ AnalyzeDocument
    \/ ReturnFields

SpecInfer == InitInfer /\ [][NextInfer]_vars

\* C36: for every field path, the sample values the inferencer holds are at
\* most 10 and no value is held twice, after any number of analysed
\* documents and whatever the values are (scalars, arrays, nested objects).
C36_SampleValuesCappedAndUnique ==
    \A i \in 1..Len(fieldMap) :
        /\ Len(fieldMap[i].sampleValues) <= 10
        /\ \A j, k \in 1..Len(fieldMap[i].sampleValues) :
              fieldMap[i].sampleValues[j] = fieldMap[i].sampleValues[k] => j = k

-----------------------------------------------------------------------------
\* Claims about the document sampling inferencer

\* inferFieldsFromDocuments has returned
Returned_inferFields == inferPc = "done"

\* the documents that have a top-level field of this name, and those in
\* which it is null or undefined
DocsWith(docs, name) ==
    {j \in 1..Len(docs) : \E e \in 1..Len(docs[j].entries) : docs[j].entries[e].key = name}
DocsWithNull(docs, name) ==
    {j \in 1..Len(docs) : \E e \in 1..Len(docs[j].entries) :
                            /\ docs[j].entries[e].key = name
                            /\ docs[j].entries[e].value.kind \in {"null", "undefined"}}

\* the types one occurrence of a value counts as (156-195)
TypesOf(value) ==
    IF value.kind \in {"null", "undefined"} THEN {"null"}
    ELSE IF value.kind = "array"
    THEN {"array"} \cup (IF value.items = <<>> THEN {}
                         ELSE {ArrayOf(typeof(value.items[1]))})
    ELSE {typeof(value)}

\* the types observed for a top-level field name over the sampled documents
ObservedTypes(docs, name) ==
    UNION {UNION {TypesOf(docs[j].entries[e].value) :
                    e \in {e \in 1..Len(docs[j].entries) : docs[j].entries[e].key = name}} :
           j \in 1..Len(docs)}

\* the types a descriptor lists
AllTypes(f) == {f.allTypes[j] : j \in 1..Len(f.allTypes)}

\* C18: when inferFieldsFromDocuments has returned, the types listed for a
\* top-level field are the types observed for it in the sample; a field with
\* exactly one observed type has that type as dataType, and a field with more
\* than one has the first of string, number, boolean, object, array, null
\* that was observed, however often each type occurred.
C18_DominantTypeByPriority ==
    Returned_inferFields =>
      \A i \in 1..Len(fields) :
        LET f == fields[i]
            priority == <<"string", "number", "boolean", "object", "array", "null">>
        IN /\ DocsWith(sample, f.columnName) # {}
                => AllTypes(f) = ObservedTypes(sample, f.columnName)
           /\ Cardinality(AllTypes(f)) = 1 => f.dataType \in AllTypes(f)
           /\ Cardinality(AllTypes(f)) > 1 =>
                \A k \in 1..Len(priority) :
                  (priority[k] \in AllTypes(f)
                     /\ \A h \in 1..(k - 1) : priority[h] \notin AllTypes(f))
                  => f.dataType = priority[k]

\* A full sample in which the field is null 95 times, and first, and a number
\* 5 times: its dataType is number.
C18_Witness ==
    /\ Returned_inferFields
    /\ Len(sample) = SampleSize
    /\ \E i \in 1..Len(fields) :
         /\ fields[i].allTypes = <<"null", "number">>
         /\ Cardinality(DocsWithNull(sample, fields[i].columnName)) = 95
         /\ fields[i].dataType = "number"

\* the field paths of a sequence of descriptors, and their dominant types
PathsOf(fs) == [i \in 1..Len(fs) |-> fs[i].columnName]
DataTypesOf(fs) == [i \in 1..Len(fs) |-> fs[i].dataType]

\* the documents of docs in the order perm
Reordered(docs, perm) == [j \in 1..Len(docs) |-> docs[perm[j]]]

\* Every ordering of the sample of 1..MaxDocs documents gives the returned
\* sequence of field paths and the returned dominant types.
SameForEveryOrdering ==
    \A perm \in Permutations(1..Len(sample)) :
      LET other == inferFieldsFromDocuments(Reordered(sample, perm))
      IN PathsOf(other) = PathsOf(fields) /\ DataTypesOf(other) = DataTypesOf(fields)

Number(n) == Divide(n, 1)

\* x and y are the same double or neighbours
WithinOneUlp(x, y) == x = y \/ NextUp(x) = y \/ NextUp(y) = x

\* isNullable and occurrenceCount of a descriptor are those of nulls null or
\* undefined occurrences among total occurrences
CountsAsSampled(f, nulls, total) ==
    /\ f.isNullable = "YES" <=> nulls > 0
    /\ f.isNullable \in {"YES", "NO"}
    /\ f.occurrenceCount = total - nulls

\* C20 as stated: isNullable is YES exactly when at least one sampled
\* occurrence of the field was null or undefined, nullPercentage equals
\* 100 * nullCount / totalCount, and occurrenceCount equals totalCount -
\* nullCount, the counts being those of the field's occurrences in the sample.
C20_NullPercentageExact ==
    Returned_inferFields =>
      \A i \in 1..Len(fields) :
        LET f == fields[i]
            nulls == Cardinality(DocsWithNull(sample, f.columnName))
            total == Cardinality(DocsWith(sample, f.columnName))
        IN total > 0 =>
             /\ CountsAsSampled(f, nulls, total)
             /\ f.nullPercentage = Divide(100 * nulls, total)

\* C20: isNullable is YES exactly when at least one sampled occurrence of the
\* field was null or undefined, occurrenceCount equals totalCount - nullCount,
\* and nullPercentage is the double 100 * nullCount / totalCount or one of
\* its two neighbours; it is 0 without null occurrences, 100 when every
\* occurrence is null, and 5 for 5 null occurrences among 100.
C20_NullPercentageWithinOneUlp ==
    Returned_inferFields =>
      \A i \in 1..Len(fields) :
        LET f == fields[i]
            nulls == Cardinality(DocsWithNull(sample, f.columnName))
            total == Cardinality(DocsWith(sample, f.columnName))
        IN total > 0 =>
             /\ CountsAsSampled(f, nulls, total)
             /\ WithinOneUlp(f.nullPercentage, Divide(100 * nulls, total))
             /\ nulls = 0 => f.nullPercentage = Zero
             /\ nulls = total => f.nullPercentage = Number(100)
             /\ nulls = 5 /\ total = 100 => f.nullPercentage = Number(5)

\* The field is a number in 95 documents and null in 5: YES, 5 percent,
\* number, 95 occurrences.
C20_Witness ==
    /\ Returned_inferFields
    /\ \E i \in 1..Len(fields) :
         /\ Cardinality(DocsWithNull(sample, fields[i].columnName)) = 5
         /\ Cardinality(DocsWith(sample, fields[i].columnName)) = 100
         /\ fields[i].isNullable = "YES"
         /\ fields[i].nullPercentage = Number(5)
         /\ fields[i].dataType = "number"
         /\ fields[i].occurrenceCount = 95

-----------------------------------------------------------------------------
\* Claims about the size loaders

\* numRows of a databricks table in the catalog
DbxRowsOf(e) ==
    LET rows == SelectSeq(DbxTables, LAMBDA r : DbxKey(r) = e)
    IN rows[1].numRows

C22_SizesAreNonNegativeIntegers ==
    \A k \in DOMAIN tableSizeCache :
      tableSizeCache[k].t = "number" /\ tableSizeCache[k].n >= 0

-----------------------------------------------------------------------------
\* Claims about the connection lifecycle under interleaving

\* Call c is inside getConnection, awaiting a connect attempt.
InGetConnection(c) == calls[c].pc = "wait"
\* Attempt a settles in this step.
Settles(a) == attempts[a].state = "pending" /\ attempts'[a].state = "settled"

\* C23: as long as the process runs, every call inside getConnection leaves
\* it, with a handle or with an error, whatever the backend does; and when an
\* attempt settles, no in-flight entry is left under its key.
C23_GetConnectionCompletes ==
    /\ \A c \in CallIds : InGetConnection(c) ~> (~InGetConnection(c) \/ ~Running)
    /\ [][\A a \in CallIds :
            Settles(a) =>
              initializationPromises'[getConnectionKey(attempts[a].config)] = 0]_vars

\* The timer fired while connect() was still unanswered: the call returned the
\* error and no in-flight entry is left under its key.
C23_Witness ==
    \E c \in CallIds :
      /\ calls[c].kind = "get" /\ calls[c].pc = "done" /\ calls[c].out = "error"
      /\ calls[c].att = c
      /\ attempts[c].state = "settled" /\ conn[c] = "connecting"
      /\ initializationPromises[getConnectionKey(calls[c].config)] = 0

-----------------------------------------------------------------------------
\* Claims about the pool and the connections it made

\* The key of the configuration attempt a was started for.
KeyOfAttempt(a) == getConnectionKey(calls[a].config)
\* Call c returns a handle from getConnection in this step.
ReturnsHandle(c) ==
    /\ calls[c].pc # "done"
    /\ calls'[c].pc = "done" /\ calls'[c].kind = "get" /\ calls'[c].out = "handle"
\* The idle sweep removes the entry of the key it awaited in this step.
SweepRemoves ==
    /\ sweep.pc = "closing" /\ sweep' # sweep
    /\ connections[sweep.key] # NoHandle
    /\ connections'[sweep.key] = NoHandle

\* C26: every open connection the manager created is the connection of the
\* handle stored in the pool under its key, or belongs to the attempt in
\* flight for its key.
C26_OpenConnectionsAreReachable ==
    \A a \in CallIds :
      conn[a] = "open" =>
        \/ connections[KeyOfAttempt(a)] = a
        \/ initializationPromises[KeyOfAttempt(a)] = a

\* C27: a handle getConnection returns has an open connection: one that is
\* neither closed nor being closed by the sweep or by closeAll.
C27_ReturnedHandleIsOpen ==
    [][\A c \in CallIds : ReturnsHandle(c) => conn'[calls'[c].h] = "open"]_vars

\* C28: at most one attempt is pending per key, and when an attempt settles
\* the in-flight entry of its key is its own and is removed.
C28_OneAttemptPerKey ==
    /\ [](\A k \in Keys :
            Cardinality({a \in CallIds : attempts[a].state = "pending"
                                          /\ KeyOfAttempt(a) = k}) <= 1)
    /\ [][\A a \in CallIds :
            Settles(a) => /\ initializationPromises[KeyOfAttempt(a)] = a
                          /\ initializationPromises'[KeyOfAttempt(a)] = 0]_vars

\* A second call joined the attempt of the first one; the attempt settled and
\* its entry is gone.
C28_Witness ==
    \E a \in CallIds, c \in CallIds :
      /\ c # a
      /\ calls[c].att = a /\ calls[c].pc = "done"
      /\ calls[a].att = a /\ calls[a].pc = "done"
      /\ attempts[a].state = "settled"
      /\ initializationPromises[KeyOfAttempt(a)] = 0

\* C29: the entry the idle sweep removes is the handle it closed, and that
\* handle was not used since the sweep judged it idle.
C29_SweepRemovesWhatItClosed ==
    [][SweepRemoves => /\ connections[sweep.key] = sweep.h
                       /\ IsIdle(sweep.h, sweep.now)]_vars

\* C31: when executeQuery has returned or raised, the session and the
\* operation it opened are closed.
C31_QueryLeavesNothingOpen ==
    \A c \in CallIds : calls[c].pc = "done" => sessions[c] = {}

\* C32: the handle getConnection(cfg) returns was established with cfg's own
\* token and HTTP path.
C32_HandleOfOwnCredentials ==
    [][\A c \in CallIds :
         ReturnsHandle(c) =>
           /\ handles'[calls'[c].h].config.password = calls'[c].config.password
           /\ handles'[calls'[c].h].config.databricksHttpPath
                = calls'[c].config.databricksHttpPath]_vars

\* The query of executeQuery call c fails in this step (index.ts 639-644).
QueryFailsIn(c) ==
    calls[c].pc = "query" /\ calls'[c].pc = "done" /\ calls'[c].out = "error"

\* C38: the failure of a query of executeQuery changes nothing of the manager
\* but isConnected of the handle the query ran on, which becomes false: the
\* pool and its keys, every other handle, lastUsed of every handle and the
\* in-flight map are as before.
C38_FailedQueryFrame ==
    [][\A c \in CallIds :
         QueryFailsIn(c) =>
           /\ connections' = connections
           /\ connOrder' = connOrder
           /\ initializationPromises' = initializationPromises
           /\ \A h \in CallIds :
                handles'[h] = IF h = calls[c].h
                              THEN [handles[h] EXCEPT !.isConnected = FALSE]
                              ELSE handles[h]]_vars

\* A query of executeQuery failed on one key while the pool holds a connected
\* handle of another key.
C38_Witness ==
    \E c \in CallIds, g \in CallIds :
      /\ calls[c].kind = "exec" /\ calls[c].pc = "done" /\ calls[c].out = "error"
      /\ calls[c].h # NoHandle /\ ~handles[calls[c].h].isConnected
      /\ g # calls[c].h /\ g \in Pooled /\ handles[g].isConnected
      /\ KeyOfHandle(g) # KeyOfHandle(calls[c].h)

-----------------------------------------------------------------------------
\* ================================================ Part IV: orchestrate
\* index.ts 780-856: one orchestration round trip over a socket.io socket.
\* The configurations of this part are those whose runQuery opens a driver
\* connection of its own (index.ts 723-776); a databricks configuration goes
\* through the connection manager of Part I.

MaxRequests == 2      \* query_request events the service sends in one run

\* Two sets of credentials.
CredA == [host |-> "db1.internal", user |-> "alice", password |-> "s3cret"]
CredB == [host |-> "db2.internal", user |-> "bob", password |-> "hunter2"]
RelayKinds == {"mysql", "postgres", "mongodb"}
RelayCfgs ==
    {[databaseType |-> k, host |-> c.host, user |-> c.user, password |-> c.password] :
       k \in RelayKinds, c \in {CredA, CredB}}

\* One property of an emitted payload: its name, where its value comes from
\* ("caller", "config", "clock", "service", "literal", "driver", "database")
\* and the value: the pieces of a string, or the object read from the
\* database.  A property whose value is undefined is not serialized.
Field(name, from, val) == [name |-> name, from |-> from, val |-> val]
\* socket.emit(event, payload)
Message(event, payload) == [event |-> event, fields |-> payload]

\* index.ts 842-848: socket.emit("schema_info", ...)
SchemaInfo(o) ==
    IF o.connId = "" /\ o.cfg # NoCfg
    THEN Message("schema_info", <<Field("schemaMap", "database", schemaMap),
                                  Field("indexMap", "database", indexMap)>>)
    ELSE Message("schema_info",
                 IF o.connId = "" THEN <<>>
                 ELSE <<Field("databaseConnectionId", "caller", <<o.connId>>)>>)

\* index.ts 851: `${Date.now()}-${Math.random().toString(36).slice(2)}`
RequestIds == {<<"1762329600000", "-", "k3x9q">>, <<"1762329600001", "-", "p07ab">>}

\* index.ts 853: socket.emit("orchestrate", { prompt, databaseType, requestId,
\* apiKey, mode, databaseConnectionId })
OrchestrateMessage(o, rid) ==
    Message("orchestrate",
            <<Field("prompt", "caller", <<o.prompt>>)>>
            \o (IF o.cfg = NoCfg THEN <<>>
                ELSE <<Field("databaseType", "config", <<o.cfg.databaseType>>)>>)
            \o <<Field("requestId", "clock", rid),
                 Field("apiKey", "caller", <<o.apiKey>>),
                 Field("mode", "caller", <<o.mode>>)>>
            \o (IF o.connId = "" THEN <<>>
                ELSE <<Field("databaseConnectionId", "caller", <<o.connId>>)>>))

\* The message of an error runQuery throws.  The drivers are handed the host,
\* the user and the password (index.ts 727-728, 744-750, 763-769); the text of
\* what they, the server or the network layer throw is theirs: a server's
\* complaint about the statement, the resolver's about the host, the server's
\* about the user.
DriverErrors(cfg) ==
    {<<"syntax error in statement">>,
     <<"getaddrinfo ENOTFOUND ", cfg.host>>,
     <<"access denied for user ", cfg.user>>}

\* index.ts 804, 811: socket.emit("query_result", { queryId, error })
QueryError(queryId, from, text) ==
    Message("query_result", <<Field("queryId", "service", <<queryId>>),
                              Field("error", from, text)>>)
\* index.ts 809: socket.emit("query_result", { queryId, result })
QueryResult(queryId, rows) ==
    Message("query_result", <<Field("queryId", "service", <<queryId>>),
                              Field("result", "database", rows)>>)

\* The queryId of the service's requests, in the order they are sent.
QueryIds == <<"q1", "q2", "q3">>

\* index.ts 780-786, 791-856: the socket is created and the handlers are
\* registered.
Orchestrate(prompt, apiKey, connId, cfg, mode) ==
    /\ orch.pc = "idle"
    /\ orch' = [OrchIdle EXCEPT !.pc = "connecting", !.prompt = prompt, !.apiKey = apiKey,
                                !.connId = connId, !.cfg = cfg, !.mode = mode]
    /\ UNCHANGED <<emitted, parked, poolVars, metaVars, inferVars, sizeVars>>

\* index.ts 795-798: "connect_error"
OnConnectError ==
    /\ orch.pc = "connecting"
    /\ orch' = [orch EXCEPT !.pc = "rejected"]
    /\ UNCHANGED <<emitted, parked, poolVars, metaVars, inferVars, sizeVars>>

\* index.ts 830-854: "connect".  Without a databaseConnectionId and with a
\* configuration the handler awaits initMetadata before it emits; otherwise
\* it emits both messages at once.
OnConnect ==
    /\ orch.pc = "connecting"
    /\ IF orch.connId = "" /\ orch.cfg # NoCfg
       THEN /\ orch' = [orch EXCEPT !.pc = "metadata"]
            /\ UNCHANGED emitted
       ELSE /\ orch' = [orch EXCEPT !.pc = "orchestrating"]
            /\ \E rid \in RequestIds :
                 emitted' = emitted \o <<SchemaInfo(orch), OrchestrateMessage(orch, rid)>>
    /\ UNCHANGED <<parked, poolVars, metaVars, inferVars, sizeVars>>

\* index.ts 843: Connector.initMetadata(cfg) is entered
CallsInitMetadata ==
    /\ orch.pc = "metadata"
    /\ meta.pc = "idle" /\ meta.out = "none"
    /\ InitMetadata(orch.cfg.databaseType)

\* index.ts 843-853: initMetadata returned; schema_info carries the maps it
\* returned, then orchestrate is emitted.
AfterInitMetadata ==
    /\ orch.pc = "metadata"
    /\ meta.pc = "idle" /\ meta.out = "returned"
    /\ orch' = [orch EXCEPT !.pc = "orchestrating"]
    /\ \E rid \in RequestIds :
         emitted' = emitted \o <<SchemaInfo(orch), OrchestrateMessage(orch, rid)>>
    /\ UNCHANGED <<parked, poolVars, metaVars, inferVars, sizeVars>>

\* index.ts 801-813: "query_request".  runQuery (723-776) runs the statement
\* on a connection of its own; for mongodb it first reloads the schema and
\* the collection stats (731-732).  ok: the statement ran.
OnQueryRequest(ok) ==
    LET queryId == QueryIds[orch.requests + 1]
        kind == orch.cfg.databaseType
    IN
    /\ orch.pc = "orchestrating"
    /\ orch.requests < MaxRequests
    /\ orch' = [orch EXCEPT !.requests = @ + 1]
    /\ IF orch.cfg = NoCfg
       THEN /\ emitted' = Append(emitted,
                   QueryError(queryId, "literal", <<"No database configuration provided">>))
            /\ UNCHANGED <<schemaMap, tableSizeCache>>
       ELSE IF ok
       THEN /\ emitted' = Append(emitted, QueryResult(queryId, db[kind]))
            /\ IF kind = "mongodb"
               THEN /\ \E draw \in [{"carts", "events"} -> 0..1] :
                         /\ \A c \in DOMAIN draw : draw[c] \in Draws(c)
                         /\ schemaMap' = MongoSchemaFrom(schemaMap, db["mongodb"], draw, {})
                    /\ tableSizeCache' =
                         MongoSizesFrom(tableSizeCache, db["mongodb"], {}, EmptyMap)
               ELSE UNCHANGED <<schemaMap, tableSizeCache>>
       ELSE /\ \E text \in DriverErrors(orch.cfg) :
                 emitted' = Append(emitted, QueryError(queryId, "driver", text))
            /\ UNCHANGED <<schemaMap, tableSizeCache>>
    /\ UNCHANGED <<indexMap, db, meta, metaHist, parked, poolVars, inferVars, sizeVars>>

\* index.ts 816-819: "orchestration_chunk" with a chunk of type "final"
OnOrchestrationChunk(markdown) ==
    /\ orch.pc = "orchestrating"
    /\ orch.final # markdown
    /\ orch' = [orch EXCEPT !.final = markdown]
    /\ UNCHANGED <<emitted, parked, poolVars, metaVars, inferVars, sizeVars>>

\* index.ts 820-823: "orchestration_error"
OnOrchestrationError ==
    /\ orch.pc = "orchestrating"
    /\ orch' = [orch EXCEPT !.pc = "rejected"]
    /\ UNCHANGED <<emitted, parked, poolVars, metaVars, inferVars, sizeVars>>

\* index.ts 824-827: "orchestration_complete"
OnOrchestrationComplete ==
    /\ orch.pc = "orchestrating"
    /\ orch' = [orch EXCEPT !.pc = "resolved"]
    /\ UNCHANGED <<emitted, parked, poolVars, metaVars, inferVars, sizeVars>>

NextRelay ==
    \/ \E connId \in {"", "conn-7"}, cfg \in RelayCfgs \cup {NoCfg},
          mode \in {"turbo", "reasoning"} :
         Orchestrate("top customers by revenue", "key-1", connId, cfg, mode)
    \/ OnConnectError
    \/ OnConnect
    \/ CallsInitMetadata
    \/ LoadSchemaMap(NoFault)
    \/ LoadAllPostgresIndexes(NoFault)
    \/ LoadTableSizes(NoFault)
    \/ AfterInitMetadata
    \/ \E ok \in BOOLEAN : OnQueryRequest(ok)
    \/ OnOrchestrationChunk("# Report")
    \/ OnOrchestrationError
    \/ OnOrchestrationComplete

SpecRelay == InitMeta /\ [][NextRelay]_vars

-----------------------------------------------------------------------------
\* Claims about the messages of orchestrate

\* C24: no property of a message emitted on the socket holds what was read
\* from the user's database (the rows of a query result, the schema map, the
\* index map).
C24_NoDatabaseContentEmitted ==
    \A i \in 1..Len(emitted) :
      \A j \in 1..Len(emitted[i].fields) :
        emitted[i].fields[j].from # "database"

\* C25: no emitted message holds the host, the user or the password of the
\* connection configuration, outside what the database returned; a message
\* holding none of them is the same for two runs that differ only in them.
C25_NoCredentialsEmitted ==
    orch.cfg # NoCfg =>
      \A i \in 1..Len(emitted) :
        \A j \in 1..Len(emitted[i].fields) :
          LET f == emitted[i].fields[j]
          IN f.from # "database" =>
               \A p \in 1..Len(f.val) :
                 f.val[p] \notin {orch.cfg.host, orch.cfg.user, orch.cfg.password}

-----------------------------------------------------------------------------
\* ================================== two initMetadata calls at the same time
\* initMetadata (toolRegistry.ts 467-564) is suspended at each await of a
\* loader; a second call, made by another tool invocation or another
\* orchestrate (index.ts 843), runs in between.  meta is the call whose step
\* runs next, parked the other one; both write the module's three maps
\* (part_001 25-27).

\* The event loop resumes the other call.
SwitchCall ==
    /\ meta # parked
    /\ meta' = parked
    /\ parked' = meta
    /\ UNCHANGED <<schemaMap, indexMap, tableSizeCache, db, metaHist, orch, emitted,
                   poolVars, inferVars, sizeVars>>

\* A call is made while no call has returned yet: the maps hold nothing but
\* what the calls in progress loaded.
FirstCalls(disc) ==
    /\ metaHist.last = "none"
    /\ InitMetadata(disc)

NextOverlap ==
    \/ \E kind \in Kinds : FirstCalls(kind)
    \/ LoadSchemaMap(NoFault)
    \/ LoadAllPostgresIndexes(NoFault)
    \/ LoadTableSizes(NoFault)
    \/ SwitchCall

SpecOverlap == InitMeta /\ [][NextOverlap]_vars

\* The call in progress returns in this step while a call for another
\* configuration is suspended.
ReturnsDuringOther ==
    /\ meta.pc = "sizes" /\ meta'.out = "returned"
    /\ parked.pc # "idle" /\ parked.kind # meta.kind

\* C30: a call that returns while a call for another configuration is in
\* progress returns maps whose keys are the tables of its own database: its
\* schema map holds each of them and no map holds a key of the other call.
C30_OverlappingCallsReturnOwnMaps ==
    [][ReturnsDuringOther =>
          /\ DOMAIN schemaMap' = db[meta.kind]
          /\ DOMAIN indexMap' \subseteq db[meta.kind]
          /\ DOMAIN tableSizeCache' \subseteq db[meta.kind]]_vars

\* Without a second call in progress, the call that returns holds its own.
AloneReturnsOwnMaps ==
    [][(meta.pc = "sizes" /\ meta'.out = "returned" /\ parked = NotParked) =>
          /\ DOMAIN schemaMap' = db[meta.kind]
          /\ DOMAIN indexMap' \subseteq db[meta.kind]
          /\ DOMAIN tableSizeCache' \subseteq db[meta.kind]]_vars

-----------------------------------------------------------------------------
\* ============================ the postgres size loader, await by await
\* loadAllPostgresTableSizes (part_001 809-860) writes into the module's
\* tableSizeCache while it runs: the reset (814), then one query per schema
\* (830), each answer written at once (843-848).  What a reader sees between
\* two awaits is a state of this specification.  Every other loader builds a
\* local map, or fills the module's map without awaiting in between.

\* The awaits of the per-schema loop, one per schema of PgSchemata.
PgSizesAwait == <<"sizes.schema1", "sizes.schema2">>

\* 814-821: tableSizeCache = {}, the schema listing is awaited
PgSizesReset ==
    /\ meta.pc = "sizes" /\ meta.kind = "postgres"
    /\ tableSizeCache' = EmptyMap
    /\ meta' = [meta EXCEPT !.pc = "sizes.listing"]
    /\ UNCHANGED <<schemaMap, indexMap, db, metaHist, poolVars, inferVars, relayVars, sizeVars>>

\* 823-830: the listing answered, the query of the first schema is awaited
PgSizesListed ==
    /\ meta.pc = "sizes.listing"
    /\ meta' = [meta EXCEPT !.pc = PgSizesAwait[1]]
    /\ UNCHANGED <<schemaMap, indexMap, tableSizeCache, db, metaHist, poolVars, inferVars,
                   relayVars, sizeVars>>

\* 830-850: the query of schema i answered and its rows are written; the
\* next schema's query is awaited, or the loader returns and initMetadata
\* closes the client and returns (toolRegistry.ts 537-538, 553-563).
PgSizesSchema(i) ==
    /\ meta.pc = PgSizesAwait[i]
    /\ tableSizeCache' =
         PgSizesFrom(tableSizeCache, db["postgres"],
                     {<<PgSchemata[j]>> : j \in (i + 1)..Len(PgSchemata)}, EmptyMap)
    /\ IF i < Len(PgSchemata)
       THEN /\ meta' = [meta EXCEPT !.pc = PgSizesAwait[i + 1]]
            /\ UNCHANGED metaHist
       ELSE /\ meta' = [meta EXCEPT !.pc = "idle", !.kind = "none", !.client = "closed",
                                    !.out = "returned"]
            /\ metaHist' = [metaHist EXCEPT !.last = meta.disc, !.lastDb = db[meta.kind]]
    /\ UNCHANGED <<schemaMap, indexMap, db, poolVars, inferVars, relayVars, sizeVars>>

\* The size loaders of the other backends.
LoadOtherTableSizes ==
    /\ meta.kind # "postgres"
    /\ LoadTableSizes(NoFault)

NextReload ==
    \/ \E kind \in Kinds : InitMetadata(kind)
    \/ LoadSchemaMap(NoFault)
    \/ LoadAllPostgresIndexes(NoFault)
    \/ LoadOtherTableSizes
    \/ PgSizesReset
    \/ PgSizesListed
    \/ \E i \in 1..Len(PgSchemata) : PgSizesSchema(i)

SpecReload == InitMeta /\ [][NextReload]_vars

\* The keys of a map a reader may see during a reload: those it held when
\* the reload began, none, or every table of the database being loaded.
WholeMap(keys, before) ==
    \/ keys = before
    \/ keys = {}
    \/ db[meta.kind] \subseteq keys

\* C33: while a reload runs, each of the three maps is the previous map, the
\* empty map or a completely loaded map, never a partly populated one.
C33_ReaderSeesWholeMaps ==
    meta.pc # "idle" =>
      /\ WholeMap(DOMAIN schemaMap, DOMAIN metaHist.prevShape.schema)
      /\ WholeMap(DOMAIN indexMap, DOMAIN metaHist.prevShape.index)
      /\ WholeMap(DOMAIN tableSizeCache, metaHist.prevShape.sizes)


\* ---------------------------------------------------------------------------
\* Part V.  loadDatabricksTableSizes (part_001 334-481), await by await: the
\* catalog listing, the batches of DESCRIBE DETAIL calls running in parallel,
\* the Promise.all that ends a batch, session.close(), and the fallback
\* tier the inner catch falls through to.
\* ---------------------------------------------------------------------------

\* The largest number of rows the catalog listing returns in this model;
\* above batchSize, so that a second batch exists.
MaxTables == 12

\* const batchSize = 10 (366)
batchSize == 10

\* The qualified_name column (347) of the listed rows; the ORDER BY (354)
\* and the catalog's own uniqueness of table names make the rows distinct.
DbxTableNames == <<"t01", "t02", "t03", "t04", "t05", "t06", "t07", "t08", "t09", "t10",
                   "t11", "t12", "t13", "t14">>
qualified_name(i) == <<"main", "default", DbxTableNames[i]>>

\* Variant: the whole rest of the listing is started at once.
Slice_Rest(i, n) == i..n

\* tables.slice(i, i + batchSize) (368), positions counted from 1.
Slice(i, n) == i..(IF i + batchSize - 1 < n THEN i + batchSize - 1 ELSE n)

\* batch.map(async ...) (371): every call of the batch runs up to its first
\* await, the executeStatement of its DESCRIBE DETAIL (376).
StartBatch(d, i) ==
    [d EXCEPT !.from = i,
              !.status = [t \in 1..d.n |-> IF t \in Slice(i, d.n) THEN "flying" ELSE d.status[t]],
              !.calls = [t \in 1..d.n |-> IF t \in Slice(i, d.n) THEN d.calls[t] + 1
                                          ELSE d.calls[t]]]

\* const session = await conn.openSession() (339); a throw is caught at
\* 477-480, which empties the module's cache.
DbxOpenSession(ok) ==
    /\ dbx.pc = "idle"
    /\ IF ok THEN /\ dbx' = [dbx EXCEPT !.pc = "listing"]
                  /\ UNCHANGED tableSizeCache
             ELSE /\ dbx' = [dbx EXCEPT !.pc = "failed"]
                  /\ tableSizeCache' = EmptyMap
    /\ UNCHANGED <<schemaMap, indexMap, db, meta, metaHist, poolVars, inferVars, relayVars>>

\* The catalog query does not answer: executeStatement (357) or fetchAll
\* (358) throws, the inner catch (412-414) is entered.
DbxCatalogThrows ==
    /\ dbx.pc = "listing"
    /\ dbx' = [dbx EXCEPT !.pc = "fallback"]
    /\ UNCHANGED <<metaVars, poolVars, inferVars, relayVars>>

\* The catalog query returns n rows (357-358) and its operation is closed
\* (359); a throw of that close() is caught at 412 as well.  With rows
\* (364) the first batch is started (367-371), without the code goes on at
\* 416.
DbxCatalogListed(n, closes) ==
    /\ dbx.pc = "listing"
    /\ LET d == [dbx EXCEPT !.n = n, !.listed = TRUE,
                            !.status = [t \in 1..n |-> "todo"],
                            !.calls = [t \in 1..n |-> 0]]
       IN dbx' = IF closes /\ n > 0 THEN StartBatch([d EXCEPT !.pc = "batch"], 1)
                 ELSE [d EXCEPT !.pc = "fallback"]
    /\ UNCHANGED <<metaVars, poolVars, inferVars, relayVars>>

\* One DESCRIBE DETAIL call settles: its row count is returned (388), or
\* its throw is caught and 0 is returned (389-392).
DbxDescribeReturns(t, ok) ==
    /\ dbx.pc = "batch"
    /\ t \in 1..dbx.n
    /\ dbx.status[t] = "flying"
    /\ dbx' = [dbx EXCEPT !.status[t] = IF ok THEN "ok" ELSE "threw"]
    /\ UNCHANGED <<metaVars, poolVars, inferVars, relayVars>>

\* await Promise.all(batchPromises) (396) resumes when every call of the
\* batch has settled; the results are written into the local cache
\* (399-402), numRows of table t being t here, and the loop goes on with the
\* next slice (367) or leaves for session.close() (407).
DbxBatchCompletes ==
    /\ dbx.pc = "batch"
    /\ \A t \in Slice(dbx.from, dbx.n) : dbx.status[t] # "flying"
    /\ LET batch == Slice(dbx.from, dbx.n)
           local == [k \in {qualified_name(t) : t \in batch} \cup DOMAIN dbx.local |->
                       IF \E t \in batch : qualified_name(t) = k
                       THEN LET t == CHOOSE t \in batch : qualified_name(t) = k
                            IN IF dbx.status[t] = "ok"
                               THEN OrZero(parseInt(JsNumber(t))) ELSE JsNumber(0)
                       ELSE dbx.local[k]]
           d == [dbx EXCEPT !.local = local]
       IN dbx' = IF dbx.from + batchSize <= dbx.n
                 THEN StartBatch(d, dbx.from + batchSize)
                 ELSE [d EXCEPT !.pc = "closing"]
    /\ UNCHANGED <<metaVars, poolVars, inferVars, relayVars>>

\* await session.close() (407): done, the local cache becomes the module's
\* (408) and the loader returns (410); a throw is caught at 412.
DbxSessionCloses(ok) ==
    /\ dbx.pc = "closing"
    /\ IF ok THEN /\ dbx' = [dbx EXCEPT !.pc = "batched"]
                  /\ tableSizeCache' = dbx.local
             ELSE /\ dbx' = [dbx EXCEPT !.pc = "fallback"]
                  /\ UNCHANGED tableSizeCache
    /\ UNCHANGED <<schemaMap, indexMap, db, meta, metaHist, poolVars, inferVars, relayVars>>

\* The fallback tier (416-474): SHOW SCHEMAS (421) is issued; when the tier
\* gets through, the k tables it enumerates are written over the local
\* cache (458, 463) and the local cache becomes the module's (474); a throw
\* of SHOW SCHEMAS or of session.close() (472) empties the module's cache
\* (477-480).
DbxFallback(k, ok) ==
    /\ dbx.pc = "fallback"
    /\ LET local == [q \in {qualified_name(t) : t \in 1..k} \cup DOMAIN dbx.local |->
                       IF \E t \in 1..k : qualified_name(t) = q
                       THEN StatisticsRowCount(JsNumber(
                                CHOOSE t \in 1..k : qualified_name(t) = q))
                       ELSE dbx.local[q]]
       IN IF ok THEN /\ dbx' = [dbx EXCEPT !.pc = "enumerated", !.fallback = TRUE,
                                           !.local = local]
                     /\ tableSizeCache' = local
                ELSE /\ dbx' = [dbx EXCEPT !.pc = "failed", !.fallback = TRUE]
                     /\ tableSizeCache' = EmptyMap
    /\ UNCHANGED <<schemaMap, indexMap, db, meta, metaHist, poolVars, inferVars, relayVars>>

NextBatch ==
    \/ \E ok \in BOOLEAN : DbxOpenSession(ok)
    \/ DbxCatalogThrows
    \/ \E n \in 0..MaxTables, closes \in BOOLEAN : DbxCatalogListed(n, closes)
    \/ \E t \in 1..MaxTables, ok \in BOOLEAN : DbxDescribeReturns(t, ok)
    \/ DbxBatchCompletes
    \/ \E ok \in BOOLEAN : DbxSessionCloses(ok)
    \/ \E k \in {0, dbx.n}, ok \in BOOLEAN : DbxFallback(k, ok)

SpecBatch == InitMeta /\ [][NextBatch]_vars

InFlight == {t \in 1..dbx.n : dbx.status[t] = "flying"}
BatchNo(t) == (t - 1) \div batchSize

\* C34: in the batched tier at most 10 describe calls are in flight at any
\* time, a call is in flight only when every call of the earlier batches
\* has settled, no table is described twice, and when the tier has written
\* its batches every listed table was described exactly once and has
\* exactly one entry in the cache, which holds nothing else.
C34_BatchesOfTen ==
    /\ Cardinality(InFlight) <= 10
    /\ \A t \in InFlight : \A u \in 1..dbx.n :
          BatchNo(u) < BatchNo(t) => dbx.status[u] \in {"ok", "threw"}
    /\ \A t \in 1..dbx.n : dbx.calls[t] <= 1
    /\ dbx.pc \in {"closing", "batched"} =>
          /\ \A t \in 1..dbx.n : dbx.calls[t] = 1
          /\ DOMAIN dbx.local = {qualified_name(t) : t \in 1..dbx.n}
    /\ dbx.pc = "batched" => tableSizeCache = dbx.local

\* The second batch is in flight, after a first batch of ten in which a
\* describe call threw.
C34_Witness ==
    /\ dbx.pc = "batch"
    /\ dbx.n > 10
    /\ dbx.from = 11
    /\ InFlight = 11..dbx.n
    /\ \E u \in 1..10 : dbx.status[u] = "threw"
    /\ Cardinality(DOMAIN dbx.local) = 10


\* C35: once the catalog query has returned at least one row, no call of the
\* fallback tier (SHOW SCHEMAS, SHOW TABLES, DESCRIBE EXTENDED) is issued
\* and the module's cache is what the batched tier built; the fallback tier
\* runs only where the catalog query gave no rows.
C35_RowsMeanNoFallback ==
    (dbx.listed /\ dbx.n > 0) =>
        /\ ~dbx.fallback
        /\ dbx.pc \in {"batched", "enumerated", "failed"} =>
              /\ dbx.pc = "batched"
              /\ tableSizeCache = dbx.local


-----------------------------------------------------------------------------
\* The connect handler of orchestrate against databases whose queries can
\* fail.

\* index.ts 843: the awaited Connector.initMetadata(cfg) rejects.  The await
\* stands in no try block, so the async handler (830-854) ends there with a
\* rejected promise of its own that socket.on() does not look at: lines
\* 845-853 are not run, and neither resolve nor reject of the promise
\* orchestrate returned is called.
InitMetadataThrows ==
    /\ orch.pc = "metadata"
    /\ meta.pc = "idle" /\ meta.out = "threw"
    /\ orch' = [orch EXCEPT !.pc = "unhandled"]
    /\ UNCHANGED <<emitted, parked, poolVars, metaVars, inferVars, sizeVars>>

\* Variant: the handler does not run initMetadata against a failing database.
LoadsWithFaults_None(pc) == {NoFault}

\* What the loaders of the configured backend can meet in a step of the call.
LoadsWithFaults(pc) == Faults(meta.kind, pc)

LoadsInConnect ==
    \/ \E f \in LoadsWithFaults("schema") : LoadSchemaMap(f)
    \/ \E f \in LoadsWithFaults("indexes") : LoadAllPostgresIndexes(f)
    \/ \E f \in LoadsWithFaults("sizes") : LoadTableSizes(f)

NextConnect ==
    \/ \E connId \in {"", "conn-7"}, cfg \in RelayCfgs \cup {NoCfg},
          mode \in {"turbo", "reasoning"} :
         Orchestrate("top customers by revenue", "key-1", connId, cfg, mode)
    \/ OnConnectError
    \/ OnConnect
    \/ CallsInitMetadata
    \/ LoadsInConnect
    \/ AfterInitMetadata
    \/ InitMetadataThrows
    \/ OnOrchestrationError
    \/ OnOrchestrationComplete

\* The steps of the handler are the program's own: a handler that can go on
\* does.  What the service sends, and whether the socket connects, is not the
\* program's to decide and gets no fairness.
SpecConnectLive ==
    /\ InitMeta
    /\ [][NextConnect]_vars
    /\ WF_vars(CallsInitMetadata)
    /\ WF_vars(LoadsInConnect)
    /\ WF_vars(AfterInitMetadata)
    /\ WF_vars(InitMetadataThrows)

\* The socket of the call has connected and its handler has run or runs.
SocketConnected == orch.pc \in {"metadata", "unhandled", "orchestrating", "rejected", "resolved"}
\* The 'orchestrate' request of the call was emitted.
EmittedOrchestrate == \E i \in 1..Len(emitted) : emitted[i].event = "orchestrate"
\* The promise orchestrate returned was resolved or rejected.
PromiseSettled == orch.pc \in {"rejected", "resolved"}

\* C37: every call of orchestrate whose socket connects eventually emits the
\* 'orchestrate' request or settles its promise, also when initMetadata
\* fails inside the connect handler.
C37_ConnectedCallEmitsOrSettles ==
    SocketConnected ~> (EmittedOrchestrate \/ PromiseSettled)

====
